---- MODULE Spec2Model ----
(***************************************************************************)
(* A model of the chat-parser upload pipeline (the POST handler of the     *)
(* upload route, its manual line parser, its response clean-up and JSON    *)
(* validation), of the read handler and of the message store.              *)
(*                                                                         *)
(* The route file holds three versions of POST (lines 142, 488 and 691)    *)
(* and two versions of GET (lines 4 and 39).  The handler of line 142 has  *)
(* the whole pipeline; Spec and the specifications that start after its    *)
(* model loop are this handler.  SpecUpload is a request to any of the     *)
(* three versions of POST, SpecRead a request to either version of GET.    *)
(*                                                                         *)
(* Text is modelled character by character: a text is a sequence of        *)
(* one-character strings, so that trimming, splitting, pattern matching    *)
(* and JSON parsing are computed the way the code computes them.           *)
(***************************************************************************)
EXTENDS Integers, Sequences, FiniteSets, TLC

(***************************************************************************)
(* Characters and the string primitives of the JavaScript runtime.         *)
(***************************************************************************)

\* The white space of trim() and of \s in a pattern: the WhiteSpace and
\* LineTerminator characters of the language. The characters without a
\* TLA+ escape are written as the text of their code unit.
WS ==
  {" ", "\t", "\n", "\f", "\r", "U+000B", "U+00A0", "U+1680",
   "U+2000", "U+2001", "U+2002", "U+2003", "U+2004", "U+2005", "U+2006", "U+2007",
   "U+2008", "U+2009", "U+200A", "U+2028", "U+2029", "U+202F", "U+205F", "U+3000",
   "U+FEFF"}

\* The line terminators, which '.' in a pattern does not match.
LineTerminators == {"\n", "\r", "U+2028", "U+2029"}

\* The white space between the tokens of a JSON text.
JsonWs == {" ", "\t", "\n", "\r"}

IsWs(c) == c \in WS

\* Number of leading white space characters of s.
LeadWs(s) ==
  CHOOSE n \in 0..Len(s) :
    /\ \A i \in 1..n : IsWs(s[i])
    /\ (n = Len(s) \/ ~IsWs(s[n + 1]))

\* Number of trailing white space characters of s.
TrailWs(s) ==
  CHOOSE n \in 0..Len(s) :
    /\ \A i \in (Len(s) - n + 1)..Len(s) : IsWs(s[i])
    /\ (n = Len(s) \/ ~IsWs(s[Len(s) - n]))

\* String.prototype.trimStart
TrimStart(s) == SubSeq(s, LeadWs(s) + 1, Len(s))

\* String.prototype.trim
Trim(s) ==
  IF LeadWs(s) = Len(s) THEN <<>>
  ELSE SubSeq(s, LeadWs(s) + 1, Len(s) - TrailWs(s))

\* String.prototype.startsWith
StartsWith(s, p) == Len(p) <= Len(s) /\ SubSeq(s, 1, Len(p)) = p

\* String.prototype.endsWith
EndsWith(s, p) == Len(p) <= Len(s) /\ SubSeq(s, Len(s) - Len(p) + 1, Len(s)) = p

\* String.prototype.includes
Includes(s, p) == \E i \in 0..(Len(s) - Len(p)) : SubSeq(s, i + 1, i + Len(p)) = p

\* Index of the first character of s, at or after position from, that is in
\* the set cs; 0 when there is none.
FirstIn(s, cs, from) ==
  IF \E i \in from..Len(s) : s[i] \in cs
  THEN CHOOSE i \in from..Len(s) : s[i] \in cs /\ \A j \in from..(i - 1) : s[j] \notin cs
  ELSE 0

\* Index of the last character of s that is in the set cs; 0 when there is none.
LastIn(s, cs) ==
  IF \E i \in 1..Len(s) : s[i] \in cs
  THEN CHOOSE i \in 1..Len(s) : s[i] \in cs /\ \A j \in (i + 1)..Len(s) : s[j] \notin cs
  ELSE 0

\* Index of the first occurrence of the text p in s at or after from; 0 if none.
IndexOfFrom(s, p, from) ==
  IF \E i \in from..(Len(s) - Len(p) + 1) : SubSeq(s, i, i + Len(p) - 1) = p
  THEN CHOOSE i \in from..(Len(s) - Len(p) + 1) :
         /\ SubSeq(s, i, i + Len(p) - 1) = p
         /\ \A j \in from..(i - 1) : SubSeq(s, j, j + Len(p) - 1) # p
  ELSE 0

\* String.prototype.substring(0, n)
Substring0(s, n) == SubSeq(s, 1, IF n < Len(s) THEN n ELSE Len(s))

RECURSIVE SplitLines(_)
\* String.prototype.split('\n')
SplitLines(s) ==
  LET i == FirstIn(s, {"\n"}, 1) IN
    IF i = 0 THEN <<s>>
    ELSE <<SubSeq(s, 1, i - 1)>> \o SplitLines(SubSeq(s, i + 1, Len(s)))

(***************************************************************************)
(* JSON values.  Every value has the same record shape, the tag t saying   *)
(* which field carries it: n and e a number, s a string (a text), b a      *)
(* boolean, a the elements of an array, o the members of an object in      *)
(* source order.  A number is n times 10 to the power e, with n not a      *)
(* multiple of 10 unless it is 0 (and then e is 0): 7 is n = 7, e = 0;     *)
(* 1.7 is n = 17, e = -1; 10 is n = 1, e = 1.  A number is a double: the   *)
(* record names the double nearest to n times 10 to the power e, 0 and -0  *)
(* are n = 0, and Infinity and -Infinity are n = 1 and n = -1 with their   *)
(* name in s.                                                              *)
(***************************************************************************)

JNull == [t |-> "null", n |-> 0, e |-> 0, s |-> <<>>, b |-> FALSE, a |-> <<>>, o |-> <<>>]

JNum(x) == [t |-> "num", n |-> x, e |-> 0, s |-> <<>>, b |-> FALSE, a |-> <<>>, o |-> <<>>]

\* Infinity (sign 1) and -Infinity (sign -1).
JInfinity(sign) == [JNum(sign) EXCEPT !.s = <<"I", "n", "f", "i", "n", "i", "t", "y">>]

JStr(x) == [t |-> "str", n |-> 0, e |-> 0, s |-> x, b |-> FALSE, a |-> <<>>, o |-> <<>>]

JBool(x) == [t |-> "bool", n |-> 0, e |-> 0, s |-> <<>>, b |-> x, a |-> <<>>, o |-> <<>>]

JArr(x) == [t |-> "arr", n |-> 0, e |-> 0, s |-> <<>>, b |-> FALSE, a |-> x, o |-> <<>>]

\* x is a sequence of members [k |-> key text, v |-> value].
JObj(x) == [t |-> "obj", n |-> 0, e |-> 0, s |-> <<>>, b |-> FALSE, a |-> <<>>, o |-> x]

\* The value of a property that is not there.
JUndefined == [t |-> "undefined", n |-> 0, e |-> 0, s |-> <<>>, b |-> FALSE, a |-> <<>>, o |-> <<>>]

\* The texts the code names.
Unknown == <<"U", "n", "k", "n", "o", "w", "n">>

KeySender == <<"s", "e", "n", "d", "e", "r">>

KeyTimestamp == <<"t", "i", "m", "e", "s", "t", "a", "m", "p">>

KeyMessage == <<"m", "e", "s", "s", "a", "g", "e">>

(***************************************************************************)
(* parseChatManually: the line parser used when no model returned text.    *)
(***************************************************************************)

\* '.' of a regular expression without the s flag matches no line terminator.
NoLineTerminator(s) == \A i \in 1..Len(s) : s[i] \notin LineTerminators

\* The tail ":\s*(.+)$" of the three patterns, matched against the text after
\* the colon: the captured group, or <<>> when the tail does not match.
\* (A trimmed line ends with a character that is not white space, so a
\* non-empty rest has a non-empty capture.)
MessageGroup(rest) ==
  IF TrimStart(rest) # <<>> /\ NoLineTerminator(TrimStart(rest))
  THEN TrimStart(rest)
  ELSE <<>>

\* Format 1: /^\[([^\]]+)\]\s*([^:]+):\s*(.+)$/ ; <<>> when the line does not
\* match, else the one record.
MatchFormat1(line) ==
  LET rb == IF Len(line) >= 1 /\ line[1] = "[" THEN FirstIn(line, {"]"}, 2) ELSE 0
      co == IF rb >= 3 THEN FirstIn(line, {":"}, rb + 1) ELSE 0
      ok == /\ rb >= 3
            /\ co >= rb + 2
            /\ MessageGroup(SubSeq(line, co + 1, Len(line))) # <<>>
  IN IF ok
     THEN <<[sender    |-> JStr(Trim(SubSeq(line, rb + 1, co - 1))),
             timestamp |-> JStr(Trim(SubSeq(line, 2, rb - 1))),
             message   |-> JStr(Trim(MessageGroup(SubSeq(line, co + 1, Len(line)))))]>>
     ELSE <<>>

\* Format 2: /^([^\s]+)\s+([^:]+):\s*(.+)$/
MatchFormat2(line) ==
  LET sp == FirstIn(line, WS, 1)
      co == IF sp >= 2 THEN FirstIn(line, {":"}, sp) ELSE 0
      ok == /\ sp >= 2
            /\ co >= sp + 2
            /\ MessageGroup(SubSeq(line, co + 1, Len(line))) # <<>>
  IN IF ok
     THEN <<[sender    |-> JStr(Trim(SubSeq(line, sp, co - 1))),
             timestamp |-> JStr(Trim(SubSeq(line, 1, sp - 1))),
             message   |-> JStr(Trim(MessageGroup(SubSeq(line, co + 1, Len(line)))))]>>
     ELSE <<>>

\* Format 3: /^([^:]+):\s*(.+)$/
MatchFormat3(line) ==
  LET co == FirstIn(line, {":"}, 1)
      ok == /\ co >= 2
            /\ MessageGroup(SubSeq(line, co + 1, Len(line))) # <<>>
  IN IF ok
     THEN <<[sender    |-> JStr(Trim(SubSeq(line, 1, co - 1))),
             timestamp |-> JStr(Unknown),
             message   |-> JStr(Trim(MessageGroup(SubSeq(line, co + 1, Len(line)))))]>>
     ELSE <<>>

\* A loop body that tries format 3 before formats 1 and 2.
ParseLineFormat3First(line) ==
  LET trimmedLine == Trim(line) IN
    IF trimmedLine = <<>> THEN <<>>
    ELSE IF MatchFormat3(trimmedLine) # <<>> THEN MatchFormat3(trimmedLine)
    ELSE IF MatchFormat1(trimmedLine) # <<>> THEN MatchFormat1(trimmedLine)
    ELSE MatchFormat2(trimmedLine)

\* The body of the loop over the lines: the records one line contributes.
ParseLine(line) ==
  LET trimmedLine == Trim(line) IN
    IF trimmedLine = <<>> THEN <<>>
    ELSE IF MatchFormat1(trimmedLine) # <<>> THEN MatchFormat1(trimmedLine)
    ELSE IF MatchFormat2(trimmedLine) # <<>> THEN MatchFormat2(trimmedLine)
    ELSE MatchFormat3(trimmedLine)

RECURSIVE ParseLinesReversed(_)
\* A loop that puts the record of a line before the records of the lines
\* above it.
ParseLinesReversed(lines) ==
  IF lines = <<>> THEN <<>>
  ELSE ParseLinesReversed(Tail(lines)) \o ParseLine(Head(lines))

RECURSIVE ParseLines(_)
\* The loop over the lines: messages.push for each line that matches.
ParseLines(lines) ==
  IF lines = <<>> THEN <<>>
  ELSE ParseLine(Head(lines)) \o ParseLines(Tail(lines))

parseChatManually(content) == ParseLines(SplitLines(content))

(***************************************************************************)
(* The clean-up of the model's response text (the response sanitizer).     *)
(***************************************************************************)

\* The backquote character (a backquote cannot be written in a TLA+ string).
Backtick == "BACKTICK"

Fence == <<Backtick, Backtick, Backtick>>

FenceJson == Fence \o <<"j", "s", "o", "n">>

\* replace(/^<marker>\s*/, '') on a text that starts with the marker.
StripOpeningFence(s, marker) == TrimStart(SubSeq(s, Len(marker) + 1, Len(s)))

\* replace(/\s*<fence>$/, '')
StripClosingFence(s) ==
  IF EndsWith(s, Fence)
  THEN LET r == SubSeq(s, 1, Len(s) - Len(Fence)) IN SubSeq(r, 1, Len(r) - TrailWs(r))
  ELSE s

\* The markdown step: the fences are stripped only when the text starts with one.
StripFences(s) ==
  IF StartsWith(s, FenceJson) THEN StripClosingFence(StripOpeningFence(s, FenceJson))
  ELSE IF StartsWith(s, Fence) THEN StripClosingFence(StripOpeningFence(s, Fence))
  ELSE s

\* An extraction that stops at the first ']' after the first '['.
ExtractArrayShortest(s) ==
  LET lb == FirstIn(s, {"["}, 1)
      rb == IF lb > 0 THEN FirstIn(s, {"]"}, lb) ELSE 0
  IN IF lb > 0 /\ rb > lb THEN SubSeq(s, lb, rb) ELSE s

\* match(/\[[\s\S]*\]/): the span from the first '[' to the last ']', or the
\* text itself when there is no such span.
ExtractArray(s) ==
  LET lb == FirstIn(s, {"["}, 1)
      rb == LastIn(s, {"]"})
  IN IF lb > 0 /\ rb > lb THEN SubSeq(s, lb, rb) ELSE s

\* A leading clean-up that keeps nothing before the first '{'.
StripLeadingToBrace(s) ==
  LET i == FirstIn(s, {"{"}, 1) IN
    IF i = 0 THEN <<>> ELSE SubSeq(s, i, Len(s))

\* replace(/^[^{[]*/, '')
StripLeading(s) ==
  LET i == FirstIn(s, {"{", "["}, 1) IN
    IF i = 0 THEN <<>> ELSE SubSeq(s, i, Len(s))

\* A trailing clean-up that keeps nothing after the last '}'.
StripTrailingToBrace(s) ==
  LET j == LastIn(s, {"}"}) IN
    IF j = 0 THEN <<>> ELSE SubSeq(s, 1, j)

\* replace(/[^}\]]*$/, '')
StripTrailing(s) ==
  LET j == LastIn(s, {"}", "]"}) IN
    IF j = 0 THEN <<>> ELSE SubSeq(s, 1, j)

\* cleanedResponse, as handed to JSON.parse.
CleanResponse(responseText) ==
  Trim(StripTrailing(StripLeading(ExtractArray(Trim(StripFences(Trim(responseText)))))))

(***************************************************************************)
(* JSON.parse.  A numeral gives the double nearest to it: 0 when it is at  *)
(* most half the least double, Infinity when it is beyond the greatest,    *)
(* and otherwise the double its digits and exponent name (numerals have up *)
(* to nine digits).  A character outside ASCII, and a                      *)
(* control character without a TLA+ escape, is written as the one-element  *)
(* text of its code unit, "U+" and four hexadecimal digits.                *)
(***************************************************************************)

Digits == <<"0", "1", "2", "3", "4", "5", "6", "7", "8", "9">>

IsDigit(c) == \E d \in 1..Len(Digits) : Digits[d] = c

DigitValue(c) == (CHOOSE d \in 1..Len(Digits) : Digits[d] = c) - 1

\* The position of the first character at or after i that is not white
\* space of JSON.
SkipWs(s, i) ==
  IF i > Len(s) THEN i
  ELSE CHOOSE j \in i..(Len(s) + 1) :
         /\ \A m \in i..(j - 1) : s[m] \in JsonWs
         /\ (j = Len(s) + 1 \/ s[j] \notin JsonWs)

ParseFail == [ok |-> FALSE, val |-> JNull, next |-> 0]

ParseOk(v, n) == [ok |-> TRUE, val |-> v, next |-> n]

\* The backspace character (TLA+ has no escape for it).
\* The hexadecimal digits, in upper case.
HexDigits == <<"0", "1", "2", "3", "4", "5", "6", "7", "8", "9", "A", "B", "C", "D", "E", "F">>

\* The value of a hexadecimal digit in either case; -1 for another character.
HexValue(c) ==
  LET lower == <<"0", "1", "2", "3", "4", "5", "6", "7", "8", "9", "a", "b", "c", "d", "e", "f">>
  IN IF \E v \in 1..16 : c = HexDigits[v] \/ c = lower[v]
     THEN (CHOOSE v \in 1..16 : c = HexDigits[v] \/ c = lower[v]) - 1
     ELSE -1

\* The characters U+0020 to U+007E.
Ascii ==
  <<" ", "!", "\"", "#", "$", "%", "&", "'", "(", ")", "*", "+", ",", "-", ".", "/",
    "0", "1", "2", "3", "4", "5", "6", "7", "8", "9", ":", ";", "<", "=", ">", "?",
    "@", "A", "B", "C", "D", "E", "F", "G", "H", "I", "J", "K", "L", "M", "N", "O",
    "P", "Q", "R", "S", "T", "U", "V", "W", "X", "Y", "Z", "[", "\\", "]", "^", "_",
    Backtick, "a", "b", "c", "d", "e", "f", "g", "h", "i", "j", "k", "l", "m", "n", "o",
    "p", "q", "r", "s", "t", "u", "v", "w", "x", "y", "z", "{", "|", "}", "~">>

\* The character of a code unit given by four hexadecimal digits.
UnicodeChar(h) ==
  LET v == 4096 * HexValue(h[1]) + 256 * HexValue(h[2]) + 16 * HexValue(h[3]) + HexValue(h[4])
  IN IF v >= 32 /\ v <= 126 THEN Ascii[v - 31]
     ELSE IF v = 9 THEN "\t"
     ELSE IF v = 10 THEN "\n"
     ELSE IF v = 12 THEN "\f"
     ELSE IF v = 13 THEN "\r"
     ELSE "U+" \o HexDigits[HexValue(h[1]) + 1] \o HexDigits[HexValue(h[2]) + 1]
               \o HexDigits[HexValue(h[3]) + 1] \o HexDigits[HexValue(h[4]) + 1]

\* The characters below U+0020, which a JSON string may not contain.
ControlCharacters ==
  {"\t", "\n", "\f", "\r"} \cup {"U+00" \o h1 \o h2 : h1 \in {"0", "1"}, h2 \in {HexDigits[v] : v \in 1..16}}

\* The character of the escape \c: none for a character that is no escape.
Escaped(c) ==
  CASE c = "\"" -> <<"\"">>
    [] c = "\\" -> <<"\\">>
    [] c = "/" -> <<"/">>
    [] c = "b" -> <<"U+0008">>
    [] c = "f" -> <<"\f">>
    [] c = "n" -> <<"\n">>
    [] c = "r" -> <<"\r">>
    [] c = "t" -> <<"\t">>
    [] OTHER -> <<>>

\* What a string has at position j, before its closing quote: the number of
\* characters of the text read (n) and the characters they stand for (chars);
\* n is 0 for a control character and for a backslash that starts no escape.
CharacterAt(s, j) ==
  IF s[j] \in ControlCharacters THEN [n |-> 0, chars |-> <<>>]
  ELSE IF s[j] # "\\" THEN [n |-> 1, chars |-> <<s[j]>>]
  ELSE IF j + 1 > Len(s) THEN [n |-> 0, chars |-> <<>>]
  ELSE IF s[j + 1] = "u"
  THEN (IF j + 5 <= Len(s) /\ \A m \in (j + 2)..(j + 5) : HexValue(s[m]) >= 0
        THEN [n |-> 6, chars |-> <<UnicodeChar(SubSeq(s, j + 2, j + 5))>>]
        ELSE [n |-> 0, chars |-> <<>>])
  ELSE IF Escaped(s[j + 1]) # <<>> THEN [n |-> 2, chars |-> Escaped(s[j + 1])]
  ELSE [n |-> 0, chars |-> <<>>]

RECURSIVE ParseCharacters(_, _, _)
\* The characters of a string from position j (after acc) to its closing
\* quote, the escapes replaced by their characters.
ParseCharacters(s, j, acc) ==
  IF j > Len(s) THEN ParseFail
  ELSE IF s[j] = "\"" THEN ParseOk(JStr(acc), j + 1)
  ELSE IF CharacterAt(s, j).n = 0 THEN ParseFail
  ELSE ParseCharacters(s, j + CharacterAt(s, j).n, acc \o CharacterAt(s, j).chars)

\* A string whose opening quote is at position i.
ParseString(s, i) == ParseCharacters(s, i + 1, <<>>)

RECURSIVE NumberValue(_)
NumberValue(ds) ==
  IF ds = <<>> THEN 0
  ELSE 10 * NumberValue(SubSeq(ds, 1, Len(ds) - 1)) + DigitValue(ds[Len(ds)])

\* The position after the digits that start at position i.
DigitsEnd(s, i) ==
  CHOOSE j \in i..(Len(s) + 1) :
    /\ \A m \in i..(j - 1) : IsDigit(s[m])
    /\ (j = Len(s) + 1 \/ ~IsDigit(s[j]))

RECURSIVE DigitCount(_)
\* The number of decimal digits of m > 0.
DigitCount(m) == IF m < 10 THEN 1 ELSE 1 + DigitCount(m \div 10)

RECURSIVE Pow10(_)
Pow10(x) == IF x = 0 THEN 1 ELSE 10 * Pow10(x - 1)

\* m times 10 to the power x (m > 0, of d digits) is at most 2^-1075 =
\* 2.47032822920623...e-324, half the least double: the nearest double is 0.
Underflows(m, x, d) ==
  \/ x + d - 1 < -324
  \/ x + d - 1 = -324 /\ (d > 9 \/ m * Pow10(9 - d) <= 247032822)

\* m times 10 to the power x (m > 0, of d digits) is at least 2^1024 - 2^970 =
\* 1.79769313486231580...e308, half a step above the greatest double: the
\* nearest double is Infinity.
Overflows(m, x, d) ==
  \/ x + d - 1 > 308
  \/ x + d - 1 = 308 /\ (IF d > 9 THEN m >= 1797693135 ELSE m * Pow10(9 - d) >= 179769314)

RECURSIVE JNumber(_, _)
\* The double nearest to m times 10 to the power x.
JNumber(m, x) ==
  IF m = 0 THEN JNum(0)
  ELSE IF m % 10 = 0 THEN JNumber(m \div 10, x + 1)
  ELSE IF Underflows(IF m < 0 THEN 0 - m ELSE m, x, DigitCount(IF m < 0 THEN 0 - m ELSE m))
  THEN JNum(0)
  ELSE IF Overflows(IF m < 0 THEN 0 - m ELSE m, x, DigitCount(IF m < 0 THEN 0 - m ELSE m))
  THEN JInfinity(IF m < 0 THEN -1 ELSE 1)
  ELSE [JNum(m) EXCEPT !.e = x]

\* The digits of the exponent of a number, from position start: at least
\* one. m is the mantissa, f the number of digits of the fraction.
ExponentDigits(s, m, f, minus, start) ==
  LET end == DigitsEnd(s, start)
  IN IF end = start THEN ParseFail
     ELSE IF minus
     THEN ParseOk(JNumber(m, 0 - NumberValue(SubSeq(s, start, end - 1)) - f), end)
     ELSE ParseOk(JNumber(m, NumberValue(SubSeq(s, start, end - 1)) - f), end)

\* The optional exponent of a number, at position q: 'e' or 'E', an optional
\* sign and digits.
ParseExponent(s, m, f, q) ==
  IF q > Len(s) \/ s[q] \notin {"e", "E"} THEN ParseOk(JNumber(m, 0 - f), q)
  ELSE IF q + 1 <= Len(s) /\ s[q + 1] = "-" THEN ExponentDigits(s, m, f, TRUE, q + 2)
  ELSE IF q + 1 <= Len(s) /\ s[q + 1] = "+" THEN ExponentDigits(s, m, f, FALSE, q + 2)
  ELSE ExponentDigits(s, m, f, FALSE, q + 1)

\* The optional fraction of a number whose integer digits are at p..(q - 1):
\* '.' and at least one digit; then the exponent.
ParseFraction(s, neg, p, q) ==
  IF q <= Len(s) /\ s[q] = "."
  THEN LET end == DigitsEnd(s, q + 1)
           digits == SubSeq(s, p, q - 1) \o SubSeq(s, q + 1, end - 1)
       IN IF end = q + 1 THEN ParseFail
          ELSE ParseExponent(s, IF neg THEN 0 - NumberValue(digits) ELSE NumberValue(digits),
                             end - q - 1, end)
  ELSE ParseExponent(s, IF neg THEN 0 - NumberValue(SubSeq(s, p, q - 1))
                        ELSE NumberValue(SubSeq(s, p, q - 1)), 0, q)

\* A number that starts at position i: an optional '-', then 0 or digits
\* that do not start with 0, then an optional fraction and an optional
\* exponent.
ParseNumber(s, i) ==
  LET p == IF s[i] = "-" THEN i + 1 ELSE i
  IN IF p > Len(s) \/ ~IsDigit(s[p]) THEN ParseFail
     ELSE IF s[p] = "0" THEN ParseFraction(s, s[i] = "-", p, p + 1)
     ELSE ParseFraction(s, s[i] = "-", p, DigitsEnd(s, p))

ParseLiteral(s, i, word, v) ==
  IF i + Len(word) - 1 <= Len(s) /\ SubSeq(s, i, i + Len(word) - 1) = word
  THEN ParseOk(v, i + Len(word))
  ELSE ParseFail

RECURSIVE ParseValue(_, _)
RECURSIVE ParseElements(_, _, _)
RECURSIVE ParseMembers(_, _, _)

\* The elements of an array after its '[' (and after acc), up to its ']'.
ParseElements(s, i, acc) ==
  LET r == ParseValue(s, i)
      j == SkipWs(s, r.next)
  IN IF ~r.ok \/ j > Len(s) THEN ParseFail
     ELSE IF s[j] = "," THEN ParseElements(s, j + 1, Append(acc, r.val))
     ELSE IF s[j] = "]" THEN ParseOk(JArr(Append(acc, r.val)), j + 1)
     ELSE ParseFail

\* The members of an object after the value r of the member with the key
\* key: a ',' and the other members, or the '}'.
MembersAfterValue(s, key, r, acc) ==
  LET j == SkipWs(s, r.next) IN
    IF ~r.ok \/ j > Len(s) THEN ParseFail
    ELSE IF s[j] = "," THEN ParseMembers(s, j + 1, Append(acc, [k |-> key.val.s, v |-> r.val]))
    ELSE IF s[j] = "}" THEN ParseOk(JObj(Append(acc, [k |-> key.val.s, v |-> r.val])), j + 1)
    ELSE ParseFail

\* The members of an object after the key of a member: a ':' and the value.
MembersAfterKey(s, key, acc) ==
  LET c == SkipWs(s, key.next) IN
    MembersAfterValue(s, key,
                      IF key.ok /\ c <= Len(s) /\ s[c] = ":" THEN ParseValue(s, c + 1) ELSE ParseFail,
                      acc)

\* The members of an object after its '{' (and after acc), up to its '}'.
ParseMembers(s, i, acc) ==
  LET k == SkipWs(s, i) IN
    MembersAfterKey(s, IF k <= Len(s) /\ s[k] = "\"" THEN ParseString(s, k) ELSE ParseFail, acc)

\* The value that starts at or after position i.
ParseValue(s, i) ==
  LET j == SkipWs(s, i) IN
    IF j > Len(s) THEN ParseFail
    ELSE IF s[j] = "[" THEN
      (IF SkipWs(s, j + 1) <= Len(s) /\ s[SkipWs(s, j + 1)] = "]"
       THEN ParseOk(JArr(<<>>), SkipWs(s, j + 1) + 1)
       ELSE ParseElements(s, j + 1, <<>>))
    ELSE IF s[j] = "{" THEN
      (IF SkipWs(s, j + 1) <= Len(s) /\ s[SkipWs(s, j + 1)] = "}"
       THEN ParseOk(JObj(<<>>), SkipWs(s, j + 1) + 1)
       ELSE ParseMembers(s, j + 1, <<>>))
    ELSE IF s[j] = "\"" THEN ParseString(s, j)
    ELSE IF IsDigit(s[j]) \/ s[j] = "-" THEN ParseNumber(s, j)
    ELSE IF s[j] = "t" THEN ParseLiteral(s, j, <<"t", "r", "u", "e">>, JBool(TRUE))
    ELSE IF s[j] = "f" THEN ParseLiteral(s, j, <<"f", "a", "l", "s", "e">>, JBool(FALSE))
    ELSE IF s[j] = "n" THEN ParseLiteral(s, j, <<"n", "u", "l", "l">>, JNull)
    ELSE ParseFail

\* The value r read from the start of text is the result when only white
\* space follows it.
WholeText(text, r) ==
  IF r.ok /\ SkipWs(text, r.next) > Len(text)
  THEN [ok |-> TRUE, val |-> r.val]
  ELSE [ok |-> FALSE, val |-> JNull]

\* JSON.parse(text): ok is FALSE where JSON.parse throws a SyntaxError.
JSONParse(text) == WholeText(text, ParseValue(text, 1))

(***************************************************************************)
(* The key/value recovery that runs when JSON.parse throws.                *)
(***************************************************************************)

NoMatch == [found |-> FALSE, val |-> <<>>]

RECURSIVE KvMatchFrom(_, _, _)
\* line.match(/"<key>":\s*"([^"]*)"/), searched from position from: pat is
\* the text "<key>": with its quotes and colon; \s* is the white space of
\* patterns (WS), not that of JSON.
KvMatchFrom(line, pat, from) ==
  LET p == IndexOfFrom(line, pat, from)
      q == p + Len(pat) + LeadWs(SubSeq(line, p + Len(pat), Len(line)))
      close == IF q <= Len(line) /\ line[q] = "\"" THEN FirstIn(line, {"\""}, q + 1) ELSE 0
  IN IF p = 0 THEN NoMatch
     ELSE IF close > 0 THEN [found |-> TRUE, val |-> SubSeq(line, q + 1, close - 1)]
     ELSE KvMatchFrom(line, pat, p + 1)

\* A match that allows no white space between the colon and the value.
KvMatchNoSpace(line, key) ==
  LET pat == <<"\"">> \o key \o <<"\"", ":", "\"">>
      p == IndexOfFrom(line, pat, 1)
      close == IF p > 0 THEN FirstIn(line, {"\""}, p + Len(pat)) ELSE 0
  IN IF close > 0 THEN [found |-> TRUE, val |-> SubSeq(line, p + Len(pat), close - 1)]
     ELSE NoMatch

KvMatch(line, key) == KvMatchFrom(line, <<"\"">> \o key \o <<"\"", ":">>, 1)

\* The records one line of the raw response contributes.
KvLine(line) ==
  LET trimmedLine == Trim(line)
      senderMatch == KvMatch(trimmedLine, KeySender)
      timestampMatch == KvMatch(trimmedLine, KeyTimestamp)
      messageMatch == KvMatch(trimmedLine, KeyMessage)
  IN IF /\ trimmedLine # <<>>
        /\ \/ Includes(trimmedLine, KeySender)
           \/ Includes(trimmedLine, KeyTimestamp)
           \/ Includes(trimmedLine, KeyMessage)
        /\ (senderMatch.found \/ timestampMatch.found \/ messageMatch.found)
     THEN <<JObj(<<
            [k |-> KeySender,
             v |-> JStr(IF senderMatch.found THEN senderMatch.val ELSE Unknown)],
            [k |-> KeyTimestamp,
             v |-> JStr(IF timestampMatch.found THEN timestampMatch.val ELSE Unknown)],
            [k |-> KeyMessage,
             v |-> JStr(IF messageMatch.found THEN messageMatch.val ELSE <<>>)]>>)>>
     ELSE <<>>

RECURSIVE KvLines(_)
KvLines(lines) ==
  IF lines = <<>> THEN <<>>
  ELSE KvLine(Head(lines)) \o KvLines(Tail(lines))

\* A recovery that scans the cleaned response.
KvRecoverCleaned(responseText) == KvLines(SplitLines(CleanResponse(responseText)))

\* fallbackMessages of the JSON-parse catch block.
KvRecover(responseText) == KvLines(SplitLines(responseText))

(***************************************************************************)
(* Error messages.  A message is the code's literal text msg, followed by  *)
(* the diagnostic diag, the embedded text arg and the embedded index idx   *)
(* where the code's template has them (idx is -1 where it has none).       *)
(***************************************************************************)

Message(m) == [msg |-> m, diag |-> "", arg |-> <<>>, idx |-> -1]

MessageWith(m, text) == [msg |-> m, diag |-> "", arg |-> text, idx |-> -1]

NoMessage == Message("")

PreviewLength == 300

\* An error message that looks for the brackets before the fence.
ParseErrorMessageArrayFirst(responseText) ==
  [msg  |-> "Invalid JSON response from OpenAI.",
   diag |-> IF ~Includes(responseText, <<"[">>) \/ ~Includes(responseText, <<"]">>)
            THEN "The response does not appear to contain a JSON array."
            ELSE IF Includes(responseText, Fence)
            THEN "The response appears to contain markdown formatting that could not be parsed."
            ELSE "The JSON structure is malformed.",
   arg  |-> Substring0(responseText, PreviewLength),
   idx  |-> -1]

\* errorMessage of the JSON-parse catch block.
ParseErrorMessage(responseText) ==
  [msg  |-> "Invalid JSON response from OpenAI.",
   diag |-> IF Includes(responseText, Fence)
            THEN "The response appears to contain markdown formatting that could not be parsed."
            ELSE IF ~Includes(responseText, <<"[">>) \/ ~Includes(responseText, <<"]">>)
            THEN "The response does not appear to contain a JSON array."
            ELSE "The JSON structure is malformed.",
   arg  |-> Substring0(responseText, PreviewLength),
   idx  |-> -1]

\* parsedMessages after the try/catch around JSON.parse: ok is FALSE when the
\* catch block throws; stages are the steps that ran.
ParseMessages(responseText) ==
  LET parsed == JSONParse(CleanResponse(responseText))
      fallbackMessages == KvRecover(responseText)
  IN IF parsed.ok
     THEN [ok |-> TRUE, val |-> parsed.val, error |-> NoMessage,
           stages |-> {"sanitize", "jsonparse"}]
     ELSE IF Len(fallbackMessages) > 0
     THEN [ok |-> TRUE, val |-> JArr(fallbackMessages), error |-> NoMessage,
           stages |-> {"sanitize", "jsonparse", "kv"}]
     ELSE [ok |-> FALSE, val |-> JNull, error |-> ParseErrorMessage(responseText),
           stages |-> {"sanitize", "jsonparse", "kv"}]

(***************************************************************************)
(* Validation and normalization of the parsed messages.                    *)
(***************************************************************************)

\* The truthiness of a JavaScript value.
Truthy(v) ==
  CASE v.t = "null" -> FALSE
    [] v.t = "undefined" -> FALSE
    [] v.t = "bool" -> v.b
    [] v.t = "num" -> v.n # 0
    [] v.t = "str" -> v.s # <<>>
    [] OTHER -> TRUE

\* msg[key] for the keys the code reads: the last member of that name of an
\* object; undefined on an array.
Prop(msg, key) ==
  IF \E i \in 1..Len(msg.o) : msg.o[i].k = key
  THEN msg.o[CHOOSE i \in 1..Len(msg.o) :
               msg.o[i].k = key /\ \A j \in (i + 1)..Len(msg.o) : msg.o[j].k # key].v
  ELSE JUndefined

\* A default that applies to null and undefined only.
OrElseNullish(a, b) == IF a.t \in {"null", "undefined"} THEN b ELSE a

\* a || b
OrElse(a, b) == IF Truthy(a) THEN a ELSE b

\* Array.isArray
IsArray(v) == v.t = "arr"

\* An element check that forgets the type test.
ElementOkTruthy(msg) == Truthy(msg)

\* The element check of the map callback: !msg || typeof msg !== 'object' is false.
ElementOk(msg) == Truthy(msg) /\ msg.t \in {"obj", "arr"}

\* The record the map callback returns for an element that passes.
NormalizeMessage(msg) ==
  [sender    |-> OrElse(Prop(msg, KeySender), JStr(Unknown)),
   timestamp |-> OrElse(Prop(msg, KeyTimestamp), JStr(Unknown)),
   message   |-> OrElse(Prop(msg, KeyMessage), JStr(<<>>))]

\* validatedMessages, or the error the validation throws.
ValidateMessages(parsedMessages) ==
  IF ~IsArray(parsedMessages)
  THEN [ok |-> FALSE, error |-> Message("Expected an array of messages"), messages |-> <<>>]
  ELSE IF \E i \in 1..Len(parsedMessages.a) : ~ElementOk(parsedMessages.a[i])
  THEN [ok |-> FALSE,
        error |-> [msg |-> "Invalid message at index ", diag |-> "", arg |-> <<>>,
                   idx |-> (CHOOSE i \in 1..Len(parsedMessages.a) :
                              /\ ~ElementOk(parsedMessages.a[i])
                              /\ \A j \in 1..(i - 1) : ElementOk(parsedMessages.a[j])) - 1],
        messages |-> <<>>]
  ELSE [ok |-> TRUE, error |-> NoMessage,
        messages |-> [i \in 1..Len(parsedMessages.a) |-> NormalizeMessage(parsedMessages.a[i])]]

(***************************************************************************)
(* The upload request: POST of the upload route, in its three versions.    *)
(***************************************************************************)

VARIABLES
  handler,       \* the handler of the route file that serves the request
  env,           \* process.env: which of OPENAI_API_KEY, MONGODB_URI are set
  file,          \* the body of the upload request: whether it is a form, and
                 \* the field file of the form
  pc,            \* where the handler is
  k,             \* the index of the current candidate in models
  calls,         \* the models of the completion calls issued, in order
  inflight,      \* the attempts whose completion call has not settled
  timers,        \* the attempts whose timeout timer is pending
  aborted,       \* the attempts whose AbortController was aborted
  responseText,  \* responseText
  lastError,     \* lastError
  messages,      \* the records handed to insertChatMessages
  fallback,      \* TRUE when messages came from parseChatManually
  stages,        \* the steps of the handler that ran
  store,         \* the documents of the chat_messages collection
  inserts,       \* the number of insertChatMessages calls of this request that
                 \* returned or threw
  response,      \* the response of the request
  read,          \* the read request (GET): where it is, its sender parameter,
                 \* the store queries it issued, its response
  conn           \* the store connection of the process: the cached client and
                 \* db, the clients constructed, the clients closed, the callers
                 \* of connectToDatabase

vars == <<handler, env, file, pc, k, calls, inflight, timers, aborted, responseText,
          lastError, messages, fallback, stages, store, inserts, response,
          read, conn>>

\* No read request.
NoRead == [pc |-> "none", sender |-> JNull, queries |-> <<>>,
           response |-> [status |-> 0, success |-> FALSE, error |-> NoMessage,
                         data |-> <<>>, count |-> 0]]

\* No call of connectToDatabase yet: client and db are undefined (0), no
\* client was constructed or closed.
NoConn == [client |-> 0, db |-> 0, constructed |-> 0, closed |-> {}, callers |-> <<>>]

\* if (client && db) of connectToDatabase.
Cached(cn) == cn.client # 0 /\ cn.db # 0

\* client = new MongoClient(...): the client of the module is a new one.
WithNewClient(cn) == [cn EXCEPT !.constructed = cn.constructed + 1,
                                !.client = cn.constructed + 1]

\* db = client.db(...), after connect() resolved: db belongs to the client
\* of the module at that time.
WithDb(cn) == [cn EXCEPT !.db = cn.client]

\* The connection of a process in which connect() resolved once.
Connected == WithDb(WithNewClient(NoConn))

\* The connection of a process when a request arrives: no call of
\* connectToDatabase yet, a call whose connect() rejected, or a call whose
\* connect() resolved.
ProcessConns == {NoConn, WithNewClient(NoConn), Connected}

\* The handlers of the route file, each named by the line of its definition:
\* the file holds three versions of POST and two versions of GET.
Uploads == {"POST:142", "POST:488", "POST:691"}

Reads == {"GET:4", "GET:39"}

\* const models
models == <<"gpt-3.5-turbo", "gpt-4o-mini", "gpt-4">>

\* const maxSize = 4 * 1024 * 1024
maxSize == 4 * 1024 * 1024

\* The character ceiling of the content in the handler of line 142.
MaxContentLength == 50000

\* The character ceiling of the content in the handler of line 488.
MaxContentLength488 == 100000

DotTxt == <<".", "t", "x", "t">>

Aborted == <<"a", "b", "o", "r", "t", "e", "d">>

UnknownError == <<"U", "n", "k", "n", "o", "w", "n", " ", "e", "r", "r", "o", "r">>

\* The content of an uploaded file is its body, followed, when length is
\* greater than the length of the body, by a line feed and by the character
\* pad up to length characters.

\* file.size: the number of bytes of the file.
FileSize(f) == f.size

\* fileContent.length: the number of characters of the content.
ContentLength(f) == f.length

\* !fileContent.trim(): the body is white space and so is what follows it.
ContentIsBlank(f) == Trim(f.body) = <<>> /\ (f.length <= Len(f.body) + 1 \/ f.pad \in WS)

NoResponse == [status |-> 0, success |-> FALSE, error |-> NoMessage,
               fallback |-> FALSE, data |-> <<>>]

\* An error response that leaves the error out.
ErrorResponseNoText(st, m) == [status |-> st, success |-> FALSE, error |-> NoMessage,
                               fallback |-> FALSE, data |-> <<>>]

ErrorResponse(st, m) == [status |-> st, success |-> FALSE, error |-> m,
                         fallback |-> FALSE, data |-> <<>>]

SuccessResponse(docs, fb) == [status |-> 200, success |-> TRUE, error |-> NoMessage,
                              fallback |-> fb, data |-> docs]

NoError == [set |-> FALSE, name |-> "", message |-> <<>>]

\* A configuration check that forgets the store connection string.
ConfigErrorKeyOnly(h, e) ==
  IF ~e.OPENAI_API_KEY THEN Message("OpenAI API key not configured")
  ELSE NoMessage

\* The configuration checks at the head of POST: the error of the first one
\* that fails, NoMessage when all pass. The handler of line 691 checks the
\* model key only.
ConfigError(h, e) ==
  IF ~e.OPENAI_API_KEY THEN Message("OpenAI API key not configured")
  ELSE IF h # "POST:691" /\ ~e.MONGODB_URI THEN Message("Database connection not configured")
  ELSE NoMessage

\* A check of the file field that failed, and the checks that all passed.
Failed(st, m) == [status |-> st, error |-> m]

Passed == Failed(0, NoMessage)

\* if (!file): the form has no field file, or the field is a text value
\* and the value is empty.
NoUpload(f) == ~f.present \/ (~f.isFile /\ f.body = <<>>)

\* The checks on the form field with the extension checked before the size.
FormErrorExtensionFirst(h, f) ==
  IF NoUpload(f) THEN Failed(400, Message("No file uploaded"))
  ELSE IF ~f.isFile
  THEN Failed(500, Message("Cannot read properties of undefined (reading 'endsWith')"))
  ELSE IF ~EndsWith(f.name, DotTxt) THEN Failed(400, Message("Only .txt files are allowed"))
  ELSE IF h # "POST:691" /\ FileSize(f) > maxSize
  THEN Failed(400, Message("File size too large. Maximum size is 4MB."))
  ELSE Passed

\* The checks on the form field, in the order of the code: the status and the
\* error of the response of the first one that fails. The handler of line
\* 691 does not check the size. A text value that is not empty has neither
\* size nor name: file.size > maxSize is false, and file.name.endsWith
\* throws a TypeError, which the catch block of POST answers.
FormError(h, f) ==
  IF NoUpload(f) THEN Failed(400, Message("No file uploaded"))
  ELSE IF h # "POST:691" /\ f.isFile /\ FileSize(f) > maxSize
  THEN Failed(400, Message("File size too large. Maximum size is 4MB."))
  ELSE IF ~f.isFile
  THEN Failed(500, Message("Cannot read properties of undefined (reading 'endsWith')"))
  ELSE IF ~EndsWith(f.name, DotTxt) THEN Failed(400, Message("Only .txt files are allowed"))
  ELSE Passed

\* The checks on the content with the emptiness test on the untrimmed content.
ContentErrorNoTrim(h, f) ==
  IF f.length = 0 THEN Message("File is empty")
  ELSE IF h = "POST:142" /\ ContentLength(f) > MaxContentLength
  THEN Message("File content too large. Please use a smaller file (max 50KB).")
  ELSE IF h = "POST:488" /\ ContentLength(f) > MaxContentLength488
  THEN Message("File content too large. Please use a smaller file.")
  ELSE NoMessage

\* The checks on the content read from the file, in the order of the code.
\* The handler of line 691 has no ceiling on the content.
ContentError(h, f) ==
  IF ContentIsBlank(f) THEN Message("File is empty")
  ELSE IF h = "POST:142" /\ ContentLength(f) > MaxContentLength
  THEN Message("File content too large. Please use a smaller file (max 50KB).")
  ELSE IF h = "POST:488" /\ ContentLength(f) > MaxContentLength488
  THEN Message("File content too large. Please use a smaller file.")
  ELSE NoMessage

\* The test of the first branch of the catch block of the loop.
IsAbortError(e) == e.name = "AbortError" \/ Includes(e.message, Aborted)

\* A catch block that goes on only after an access error and breaks otherwise.
AdvancesOnAccessErrorOnly(e) ==
  Includes(e.message, <<"d", "o", "e", "s", " ", "n", "o", "t", " ", "e", "x", "i", "s", "t">>)

\* The catch block of the loop: TRUE when it ends in continue. Each of its
\* branches (abort, access, rate limit, other) does.
AdvancesOnError(e) ==
  \/ IsAbortError(e)
  \/ Includes(e.message, <<"d", "o", "e", "s", " ", "n", "o", "t", " ", "e", "x", "i", "s", "t", " ", "o", "r", " ", "y", "o", "u", " ", "d", "o", " ", "n", "o", "t", " ", "h", "a", "v", "e", " ", "a", "c", "c", "e", "s", "s">>)
  \/ Includes(e.message, <<"r", "a", "t", "e", " ", "l", "i", "m", "i", "t">>)
  \/ TRUE

\* A loop that never breaks.
NeverBreaks(content) == FALSE

\* if (responseText) break
BreaksOnText(content) == Truthy(content)

\* The catch block of the loop of the handler of line 488: TRUE when it ends
\* in continue, which it does after an access error only; it breaks
\* otherwise.
ContinuesOnError(e) ==
  Includes(e.message, <<"d", "o", "e", "s", " ", "n", "o", "t", " ", "e", "x", "i", "s", "t", " ", "o", "r", " ", "y", "o", "u", " ", "d", "o", " ", "n", "o", "t", " ", "h", "a", "v", "e", " ", "a", "c", "c", "e", "s", "s">>)

\* The error the handler of line 488 throws when its loop ended without text.
LoopFailureMessage(e) ==
  IF e.set /\ e.name = "AbortError"
  THEN Message("Request timeout - file processing took too long")
  ELSE MessageWith("All models failed. Last error: ",
                   IF e.set THEN e.message ELSE UnknownError)

\* The error thrown when no candidate returned text and the manual parser
\* gave nothing.
ModelFailureMessage(e) ==
  IF e.set /\ e.name = "AbortError"
  THEN Message("Request timeout - file processing took too long. Please try with a smaller file.")
  ELSE MessageWith("All models failed. Last error: ",
                   IF e.set THEN e.message ELSE UnknownError)

\* The latest time of the clock.
MaxTime == 2

\* The time of the clock when insertChatMessages is called: not before the
\* time of the last document of the collection.
Now(coll) == IF coll = <<>> THEN 1 ELSE coll[Len(coll)].created_at

\* What n successive new Date() read from a clock that does not go back,
\* from the time now on.
ClockReadings(now, n) ==
  {t \in [1..n -> now..MaxTime] : \A i \in 1..n, j \in 1..n : i < j => t[i] <= t[j]}

\* Documents that get the readings of the clock in the opposite order.
NewDocumentsTimesReversed(coll, msgs, times) ==
  [i \in 1..Len(msgs) |->
     [id |-> Len(coll) + i, sender |-> msgs[i].sender, timestamp |-> msgs[i].timestamp,
      message |-> msgs[i].message, created_at |-> times[Len(msgs) + 1 - i]]]

\* insertChatMessages: the documents written for messages, each with the
\* fields of its message and the clock reading of its turn in the map, and
\* given the ids after the ones in the collection.
NewDocuments(coll, msgs, times) ==
  [i \in 1..Len(msgs) |->
     [id |-> Len(coll) + i, sender |-> msgs[i].sender, timestamp |-> msgs[i].timestamp,
      message |-> msgs[i].message, created_at |-> times[i]]]

(***************************************************************************)
(* The inputs of a request: the environment, the uploaded file, what the   *)
(* completion service answers and how the store fails.                     *)
(***************************************************************************)

Envs == [OPENAI_API_KEY : BOOLEAN, MONGODB_URI : BOOLEAN]

FileNames == {<<"c", "h", "a", "t", ".", "t", "x", "t">>,
              <<"c", "h", "a", "t", ".", "p", "d", "f">>}

\* File bodies: empty, blank, blank with a character of two bytes, a line no
\* format matches, and lines of the three formats.
FileBodies ==
  {<<>>,
   <<" ", "\n">>,
   <<"U+00A0", "\t">>,
   <<"h", "e", "l", "l", "o">>,
   <<"A", "l", "i", "c", "e", ":", " ", "H", "e", "l", "l", "o", " ", "t", "h", "e", "r", "e">>,
   <<"[", "1", "0", ":", "0", "0", "]", " ", "A", "l", "i", "c", "e", ":", " ", "h", "i", "\n", "1", "0", ":", "0", "1", " ", "B", "o", "b", ":", " ", "y", "o", "\n", "\n", "b", "y", "e">>}

\* The errors a completion call throws: a DOM abort, the client's own abort
\* error, a rate limit, a model without access, a connection failure.
Thrown(nm, m) == [set |-> TRUE, name |-> nm, message |-> m]

\* The characters that follow the body of a file: line feeds, the letter e
\* with an acute accent (two bytes), the euro sign (three bytes).
Pads == {"\n", "U+00E9", "U+20AC"}

\* The characters U+0000 to U+007F: one byte each in UTF-8.
OneByteCharacters ==
  {Ascii[i] : i \in 1..Len(Ascii)} \cup {"\t", "\n", "\f", "\r"}
    \cup {"U+00" \o HexDigits[a] \o HexDigits[b] : a \in 1..8, b \in 1..16}

\* The characters U+0080 to U+07FF: two bytes each.
TwoByteCharacters ==
  {"U+0" \o HexDigits[a] \o HexDigits[b] \o HexDigits[c] : a \in 1..8, b \in 1..16, c \in 1..16}
    \ OneByteCharacters

\* The code units U+D800 to U+DBFF and U+DC00 to U+DFFF, the halves of the
\* characters above U+FFFF.
HighSurrogates == {"U+D" \o HexDigits[a] \o HexDigits[b] \o HexDigits[c] : a \in 9..12, b \in 1..16, c \in 1..16}

LowSurrogates == {"U+D" \o HexDigits[a] \o HexDigits[b] \o HexDigits[c] : a \in 13..16, b \in 1..16, c \in 1..16}

\* The number of bytes of a code unit of a file, which is in UTF-8 without a
\* byte order mark: one up to U+007F, two up to U+07FF, three above (a
\* surrogate without its other half counts as U+FFFD, three bytes).
Utf8Width(c) ==
  IF c \in OneByteCharacters THEN 1
  ELSE IF c \in TwoByteCharacters THEN 2
  ELSE 3

RECURSIVE Utf8Length(_)
\* The number of bytes of a text: the widths of its code units, and four
\* bytes for the two halves of a character above U+FFFF.
Utf8Length(t) ==
  IF t = <<>> THEN 0
  ELSE IF Len(t) >= 2 /\ t[1] \in HighSurrogates /\ t[2] \in LowSurrogates
  THEN 4 + Utf8Length(SubSeq(t, 3, Len(t)))
  ELSE Utf8Width(t[1]) + Utf8Length(Tail(t))

\* The lengths of a file with a given body: followed by line feeds, the body
\* alone and the body padded to each ceiling and to one more; followed by
\* characters of several bytes, lengths whose bytes are on either side of
\* maxSize while the characters are below it.
FileLengths(body, pad) ==
  IF pad = "\n"
  THEN {n \in {Len(body), MaxContentLength, MaxContentLength + 1, MaxContentLength488,
               MaxContentLength488 + 1, maxSize, maxSize + 1} : n >= Len(body)}
  ELSE {maxSize \div Utf8Width(pad), maxSize \div Utf8Width(pad) + 20}

\* The file of a name, a body, a pad and a length, with its size in bytes.
UploadedFile(n, body, pad, l) ==
  [form |-> TRUE, present |-> TRUE, isFile |-> TRUE, name |-> n, body |-> body, pad |-> pad,
   length |-> l,
   size |-> Utf8Length(body)
            + (IF l > Len(body) THEN 1 + (l - Len(body) - 1) * Utf8Width(pad) ELSE 0)]

\* A form without a field file.
NoFile == [form |-> TRUE, present |-> FALSE, isFile |-> FALSE, name |-> <<>>, body |-> <<>>,
           pad |-> "\n", length |-> 0, size |-> 0]

\* A request whose body is not a form: request.formData() rejects.
NotAForm == [NoFile EXCEPT !.form = FALSE]

\* A form whose field file is a text value: formData.get returns the text.
TextField(value) == [NoFile EXCEPT !.present = TRUE, !.body = value, !.length = Len(value)]

\* What the body of an upload request holds: no form, a form without the
\* field, a text value (empty or not), a file.
Files ==
  {NotAForm, NoFile, TextField(<<>>), TextField(<<"h", "i">>)} \cup
  UNION {{UploadedFile(n, bp[1], bp[2], l) : n \in FileNames, l \in FileLengths(bp[1], bp[2])} :
           bp \in FileBodies \X Pads}

\* The errors request.formData() rejects with.
FormDataErrors ==
  {Thrown("TypeError", <<"F", "a", "i", "l", "e", "d", " ", "t", "o", " ", "p", "a", "r", "s", "e", " ", "b", "o", "d", "y", " ", "a", "s", " ", "F", "o", "r", "m", "D", "a", "t", "a", ".">>),
   Thrown("TypeError", <<"C", "o", "n", "t", "e", "n", "t", "-", "T", "y", "p", "e", " ", "w", "a", "s", " ", "n", "o", "t", " ", "o", "n", "e", " ", "o", "f", " ", "\"", "m", "u", "l", "t", "i", "p", "a", "r", "t", "/", "f", "o", "r", "m", "-", "d", "a", "t", "a", "\"", " ", "o", "r", " ", "\"", "a", "p", "p", "l", "i", "c", "a", "t", "i", "o", "n", "/", "x", "-", "w", "w", "w", "-", "f", "o", "r", "m", "-", "u", "r", "l", "e", "n", "c", "o", "d", "e", "d", "\"", ".">>)}

AbortErrors ==
  {Thrown("AbortError", <<"T", "h", "i", "s", " ", "o", "p", "e", "r", "a", "t", "i", "o", "n", " ", "w", "a", "s", " ", "a", "b", "o", "r", "t", "e", "d">>),
   Thrown("Error", <<"R", "e", "q", "u", "e", "s", "t", " ", "w", "a", "s", " ", "a", "b", "o", "r", "t", "e", "d", ".">>)}

ModelErrors ==
  AbortErrors \cup
  {Thrown("Error", <<"4", "2", "9", " ", "r", "a", "t", "e", " ", "l", "i", "m", "i", "t", " ", "r", "e", "a", "c", "h", "e", "d">>),
   Thrown("Error", <<"T", "h", "e", " ", "m", "o", "d", "e", "l", " ", "d", "o", "e", "s", " ", "n", "o", "t", " ", "e", "x", "i", "s", "t", " ", "o", "r", " ", "y", "o", "u", " ", "d", "o", " ", "n", "o", "t", " ", "h", "a", "v", "e", " ", "a", "c", "c", "e", "s", "s", " ", "t", "o", " ", "i", "t", ".">>),
   Thrown("Error", <<"C", "o", "n", "n", "e", "c", "t", "i", "o", "n", " ", "e", "r", "r", "o", "r", ".">>)}

\* The texts a completion returns in a request: a clean array, a fenced
\* array, an object, an array with a bad element, a line of key/value text
\* and text with neither JSON nor keys.
ResponseTexts ==
  {<<"[", "{", "\"", "s", "e", "n", "d", "e", "r", "\"", ":", "\"", "A", "l", "i", "c", "e", "\"", ",", "\"", "t", "i", "m", "e", "s", "t", "a", "m", "p", "\"", ":", "\"", "1", "0", ":", "0", "0", "\"", ",", "\"", "m", "e", "s", "s", "a", "g", "e", "\"", ":", "\"", "h", "i", "\"", "}", ",", "{", "\"", "s", "e", "n", "d", "e", "r", "\"", ":", "\"", "\"", ",", "\"", "m", "e", "s", "s", "a", "g", "e", "\"", ":", "\"", "y", "o", "\"", "}", "]">>,
   FenceJson \o <<"\n", "[", "{", "\"", "s", "e", "n", "d", "e", "r", "\"", ":", "\"", "B", "o", "b", "\"", "}", "]", "\n">> \o Fence,
   <<"{", "\"", "s", "e", "n", "d", "e", "r", "\"", ":", "\"", "A", "l", "i", "c", "e", "\"", "}">>,
   <<"[", "{", "\"", "s", "e", "n", "d", "e", "r", "\"", ":", "\"", "A", "l", "i", "c", "e", "\"", "}", ",", "7", "]">>,
   <<"H", "e", "r", "e", ":", " ", "\"", "s", "e", "n", "d", "e", "r", "\"", ":", " ", "\"", "B", "o", "b", "\"", ",">>,
   <<"S", "o", "r", "r", "y", ",", " ", "I", " ", "c", "a", "n", "n", "o", "t", " ", "d", "o", " ", "t", "h", "a", "t", ".">>}

\* completion.choices[0]?.message?.content: absent, null, empty or a text.
CompletionContents ==
  {JUndefined, JNull, JStr(<<>>)} \cup {JStr(t) : t \in ResponseTexts}

StoreErrors == {Thrown("MongoNetworkError", <<"c", "o", "n", "n", "e", "c", "t", "i", "o", "n", " ", "r", "e", "f", "u", "s", "e", "d">>)}

(***************************************************************************)
(* The steps of POST: those all three handlers have, with the differences  *)
(* of their checks, and the model loop, the manual parser and the          *)
(* processing of the response of the handler of line 142.                  *)
(***************************************************************************)

\* The connection of a process when a request arrives: without the
\* connection string connectToDatabase throws before it constructs a client.
ConnsOf(e) == IF e.MONGODB_URI THEN ProcessConns ELSE {NoConn}

\* The state when an upload request arrives.
Arrival ==
  /\ env \in Envs
  /\ file \in Files
  /\ pc = "start"
  /\ k = 1
  /\ calls = <<>>
  /\ inflight = {}
  /\ timers = {}
  /\ aborted = {}
  /\ responseText = JUndefined
  /\ lastError = NoError
  /\ messages = <<>>
  /\ fallback = FALSE
  /\ stages = {}
  /\ store = <<>>
  /\ inserts = 0
  /\ response = NoResponse
  /\ read = NoRead
  /\ conn \in ConnsOf(env)

\* An upload request arrives at the handler of line 142.
Init == handler = "POST:142" /\ Arrival

\* An upload request arrives at one of the three handlers.
InitUpload == handler \in Uploads /\ Arrival

\* return NextResponse.json({error}, {status}), and the catch block of POST.
Respond(st, m) ==
  /\ response' = ErrorResponse(st, m)
  /\ pc' = "done"

\* The configuration checks.
CheckConfig ==
  /\ pc = "start"
  /\ IF ConfigError(handler, env) # NoMessage
     THEN Respond(500, ConfigError(handler, env))
     ELSE pc' = "form" /\ UNCHANGED response
  /\ UNCHANGED <<handler, read, conn, env, file, k, calls, inflight, timers, aborted, responseText,
                 lastError, messages, fallback, stages, store, inserts>>

\* await request.formData(), which rejects when the body is not a form (the
\* catch block of POST answers), and the checks on the file field.
ParseForm ==
  /\ pc = "form"
  /\ stages' = stages \cup {"formData"}
  /\ IF ~file.form
     THEN \E e \in FormDataErrors : Respond(500, MessageWith("", e.message))
     ELSE IF FormError(handler, file) # Passed
     THEN Respond(FormError(handler, file).status, FormError(handler, file).error)
     ELSE pc' = "read" /\ UNCHANGED response
  /\ UNCHANGED <<handler, read, conn, env, file, k, calls, inflight, timers, aborted, responseText,
                 lastError, messages, fallback, store, inserts>>

\* await file.text() and the checks on the content.
ReadFile ==
  /\ pc = "read"
  /\ stages' = stages \cup {"text"}
  /\ IF ContentError(handler, file) # NoMessage
     THEN Respond(400, ContentError(handler, file))
     ELSE pc' = "collection" /\ UNCHANGED response
  /\ UNCHANGED <<handler, read, conn, env, file, k, calls, inflight, timers, aborted, responseText,
                 lastError, messages, fallback, store, inserts>>

\* The catch block of POST for an error of the store.
StoreFailure(e) == Respond(500, MessageWith("", e.message))

\* throw new Error('MONGODB_URI environment variable is not set')
UriNotSet == Thrown("Error", <<"M", "O", "N", "G", "O", "D", "B", "_", "U", "R", "I", " ", "e", "n", "v", "i", "r", "o", "n", "m", "e", "n", "t", " ", "v", "a", "r", "i", "a", "b", "l", "e", " ", "i", "s", " ", "n", "o", "t", " ", "s", "e", "t">>)

\* createChatMessagesCollection() up to its first await that waits for the
\* store: connectToDatabase returns the cached pair and the first createIndex
\* is called, or it throws for want of the connection string (the error goes
\* through the catch blocks to the one of POST), or it constructs the client
\* and calls connect().
CreateCollection ==
  /\ pc = "collection"
  /\ IF Cached(conn)
     THEN pc' = "index1" /\ UNCHANGED <<conn, stages, response>>
     ELSE IF ~env.MONGODB_URI
     THEN /\ stages' = stages \cup {"collection"}
          /\ StoreFailure(UriNotSet)
          /\ UNCHANGED conn
     ELSE pc' = "connecting" /\ conn' = WithNewClient(conn) /\ UNCHANGED <<stages, response>>
  /\ UNCHANGED <<handler, read, env, file, k, calls, inflight, timers, aborted, responseText,
                 lastError, messages, fallback, store, inserts>>

\* connect() resolves: db is set and the first createIndex is called.
ConnectResolves ==
  /\ pc = "connecting"
  /\ conn' = WithDb(conn)
  /\ pc' = "index1"
  /\ UNCHANGED <<handler, read, env, file, k, calls, inflight, timers, aborted, responseText,
                 lastError, messages, fallback, stages, store, inserts, response>>

\* connect() rejects: the error goes through both catch blocks of the store
\* to the catch block of POST; the client of the module stays set.
ConnectRejects(e) ==
  /\ pc = "connecting"
  /\ stages' = stages \cup {"collection"}
  /\ StoreFailure(e)
  /\ UNCHANGED <<handler, read, conn, env, file, k, calls, inflight, timers, aborted, responseText,
                 lastError, messages, fallback, store, inserts>>

\* Where a handler goes on when createChatMessagesCollection has returned:
\* the loop over the models with a timer for each attempt, the loop with
\* one timer, the one completion call.
AfterCollection(h) ==
  CASE h = "POST:142" -> "loop"
    [] h = "POST:488" -> "controller"
    [] h = "POST:691" -> "single"

\* A createIndex resolves: the second one is called after the first, and
\* createChatMessagesCollection returns after the second.
CreateIndexResolves ==
  /\ pc \in {"index1", "index2"}
  /\ IF pc = "index1"
     THEN pc' = "index2" /\ UNCHANGED stages
     ELSE pc' = AfterCollection(handler) /\ stages' = stages \cup {"collection"}
  /\ UNCHANGED <<handler, read, conn, env, file, k, calls, inflight, timers, aborted, responseText,
                 lastError, messages, fallback, store, inserts, response>>

\* A createIndex rejects: the error of the store is the error of the request.
CreateIndexRejects(e) ==
  /\ pc \in {"index1", "index2"}
  /\ stages' = stages \cup {"collection"}
  /\ StoreFailure(e)
  /\ UNCHANGED <<handler, read, conn, env, file, k, calls, inflight, timers, aborted, responseText,
                 lastError, messages, fallback, store, inserts>>

\* The head of one iteration of the loop: a new AbortController, its timer,
\* and the completion call of models[k].
StartAttempt ==
  /\ pc = "loop"
  /\ calls' = Append(calls, models[k])
  /\ inflight' = inflight \cup {k}
  /\ timers' = timers \cup {k}
  /\ stages' = stages \cup {"completion"}
  /\ pc' = "await"
  /\ UNCHANGED <<handler, read, conn, env, file, k, aborted, responseText, lastError, messages,
                 fallback, store, inserts, response>>

\* A clearTimeout that clears nothing.
ClearTimeoutNever(ts, a) == ts

\* clearTimeout(timeoutId) of attempt a.
ClearTimeout(ts, a) == ts \ {a}

\* A pending timer fires, wherever the handler is: controller.abort() of the
\* controller of the attempt that set the timer.
TimeoutFires ==
  /\ \E a \in timers :
       /\ timers' = timers \ {a}
       /\ aborted' = aborted \cup {a}
  /\ UNCHANGED <<handler, read, conn, env, file, pc, k, calls, inflight, responseText, lastError,
                 messages, fallback, stages, store, inserts, response>>

\* The loop goes on to the next candidate, or ends after the last one.
NextCandidate ==
  IF k < Len(models)
  THEN k' = k + 1 /\ pc' = "loop"
  ELSE k' = k /\ pc' = "afterLoop"

\* The completion call returns: clearTimeout, responseText, break on text.
CompletionReturns(content) ==
  /\ pc = "await"
  /\ k \notin aborted
  /\ timers' = ClearTimeout(timers, k)
  /\ inflight' = inflight \ {k}
  /\ responseText' = content
  /\ IF BreaksOnText(content)
     THEN k' = k /\ pc' = "afterLoop"
     ELSE NextCandidate
  /\ UNCHANGED <<handler, read, conn, env, file, calls, aborted, lastError, messages, fallback,
                 stages, store, inserts, response>>

\* The completion call throws: clearTimeout, lastError, continue. An aborted
\* call throws an abort error.
CompletionThrows(e) ==
  /\ pc = "await"
  /\ k \in aborted => e \in AbortErrors
  /\ timers' = ClearTimeout(timers, k)
  /\ inflight' = inflight \ {k}
  /\ lastError' = e
  /\ IF AdvancesOnError(e)
     THEN NextCandidate
     ELSE k' = k /\ pc' = "afterLoop"
  /\ UNCHANGED <<handler, read, conn, env, file, calls, aborted, responseText, messages, fallback,
                 stages, store, inserts, response>>

\* A fallback test that is off by one.
MoreThanOne(msgs) == Len(msgs) > 1

\* if (fallbackMessages.length > 0)
HasMessages(msgs) == Len(msgs) > 0

\* if (!responseText): parseChatManually on the file content; its records go
\* to the store, or the model failure is thrown. What follows the body of the
\* file gives no record: its lines are empty or have no colon.
ManualFallback ==
  /\ pc = "afterLoop"
  /\ ~Truthy(responseText)
  /\ stages' = stages \cup {"manual"}
  /\ IF HasMessages(parseChatManually(file.body))
     THEN /\ messages' = parseChatManually(file.body)
          /\ fallback' = TRUE
          /\ pc' = "insert"
          /\ UNCHANGED response
     ELSE /\ Respond(500, ModelFailureMessage(lastError))
          /\ UNCHANGED <<messages, fallback>>
  /\ UNCHANGED <<handler, read, conn, env, file, k, calls, inflight, timers, aborted, responseText,
                 lastError, store, inserts>>

\* What follows the try/catch around JSON.parse: the error of the catch
\* block is thrown, or parsedMessages is validated and the validated records
\* go to the store, or the error of the validation is thrown.
AfterParse(parsed) ==
  LET validated == ValidateMessages(parsed.val)
  IN IF ~parsed.ok
     THEN /\ stages' = stages \cup parsed.stages
          /\ Respond(500, parsed.error)
          /\ UNCHANGED messages
     ELSE IF ~validated.ok
     THEN /\ stages' = stages \cup parsed.stages \cup {"validation"}
          /\ Respond(500, validated.error)
          /\ UNCHANGED messages
     ELSE /\ stages' = stages \cup parsed.stages \cup {"validation"}
          /\ messages' = validated.messages
          /\ pc' = "insert"
          /\ UNCHANGED response

\* The response is cleaned, parsed (or recovered) and validated; the
\* validated records go to the store, or the error is thrown.
ProcessResponse ==
  /\ pc = "afterLoop"
  /\ Truthy(responseText)
  /\ AfterParse(ParseMessages(responseText.s))
  /\ UNCHANGED <<handler, read, conn, env, file, k, calls, inflight, timers, aborted, responseText,
                 lastError, fallback, store, inserts>>

(***************************************************************************)
(* The steps of the handlers of line 488 and of line 691 from the          *)
(* completion call to the validation.  The handler of line 488 has one     *)
(* AbortController and one timer for the whole loop (named 0), goes on to  *)
(* the next candidate after an access error only, and has no manual        *)
(* parser; the handler of line 691 calls gpt-4 once.  Neither cleans the   *)
(* response nor recovers key/value pairs.                                  *)
(***************************************************************************)

\* JSON.parse(responseText) in its try/catch, parsed being what the parse
\* gives.
ParseDirect(parsed) ==
  IF parsed.ok
  THEN [ok |-> TRUE, val |-> parsed.val, error |-> NoMessage, stages |-> {"jsonparse"}]
  ELSE [ok |-> FALSE, val |-> JNull, error |-> Message("Invalid JSON response from OpenAI"),
        stages |-> {"jsonparse"}]

\* The controller and its timer are created and the first candidate is
\* called.
StartSharedLoop ==
  /\ pc = "controller"
  /\ timers' = {0}
  /\ calls' = Append(calls, models[k])
  /\ inflight' = {k}
  /\ stages' = stages \cup {"completion"}
  /\ pc' = "awaitShared"
  /\ UNCHANGED <<handler, read, conn, env, file, k, aborted, responseText, lastError, messages,
                 fallback, store, inserts, response>>

\* The loop goes on: the next candidate is called with the same signal.
SharedNext ==
  /\ k' = k + 1
  /\ calls' = Append(calls, models[k + 1])
  /\ inflight' = {k + 1}
  /\ pc' = "awaitShared"
  /\ UNCHANGED <<timers, stages, messages, response>>

\* The loop ends without text: clearTimeout(timeoutId) and the throw.
SharedEnd(e) ==
  /\ timers' = {}
  /\ inflight' = {}
  /\ Respond(500, LoopFailureMessage(e))
  /\ UNCHANGED <<k, calls, stages, messages>>

\* A completion call of the loop returns: with text the loop breaks, the
\* timer is cleared, the text is parsed and validated; without text the
\* loop goes on or ends.
SharedReturns(content) ==
  /\ pc = "awaitShared"
  /\ 0 \notin aborted
  /\ responseText' = content
  /\ IF Truthy(content)
     THEN /\ timers' = {}
          /\ inflight' = {}
          /\ AfterParse(ParseDirect(JSONParse(content.s)))
          /\ UNCHANGED <<k, calls>>
     ELSE IF k < Len(models) THEN SharedNext
     ELSE SharedEnd(lastError)
  /\ UNCHANGED <<handler, read, conn, env, file, aborted, lastError, fallback, store, inserts>>

\* A completion call of the loop throws: lastError, continue after an access
\* error, break otherwise. A call whose signal is aborted throws an abort
\* error.
SharedThrows(e) ==
  /\ pc = "awaitShared"
  /\ 0 \in aborted => e \in AbortErrors
  /\ lastError' = e
  /\ IF ContinuesOnError(e) /\ k < Len(models) THEN SharedNext ELSE SharedEnd(e)
  /\ UNCHANGED <<handler, read, conn, env, file, aborted, responseText, fallback, store, inserts>>

\* The completion call of the handler of line 691.
CallGpt4 ==
  /\ pc = "single"
  /\ calls' = Append(calls, "gpt-4")
  /\ inflight' = {1}
  /\ stages' = stages \cup {"completion"}
  /\ pc' = "awaitSingle"
  /\ UNCHANGED <<handler, read, conn, env, file, k, timers, aborted, responseText, lastError,
                 messages, fallback, store, inserts, response>>

\* The call returns: without text an error is thrown, with text it is parsed
\* and validated.
Gpt4Returns(content) ==
  /\ pc = "awaitSingle"
  /\ inflight' = {}
  /\ responseText' = content
  /\ IF Truthy(content)
     THEN AfterParse(ParseDirect(JSONParse(content.s)))
     ELSE Respond(500, Message("No response from OpenAI")) /\ UNCHANGED <<stages, messages>>
  /\ UNCHANGED <<handler, read, conn, env, file, k, calls, timers, aborted, lastError, fallback,
                 store, inserts>>

\* The call throws: the catch block of POST answers with the message.
Gpt4Throws(e) ==
  /\ pc = "awaitSingle"
  /\ inflight' = {}
  /\ Respond(500, MessageWith("", e.message))
  /\ UNCHANGED <<handler, read, conn, env, file, k, calls, timers, aborted, responseText,
                 lastError, messages, fallback, stages, store, inserts>>

\* The documents find returns for the ids insertMany gave: the documents
\* written for msgs, which are the last ones of the collection.
InsertedDocuments(coll, msgs) ==
  SubSeq(coll, Len(coll) - Len(msgs) + 1, Len(coll))

\* The catch around insertChatMessages: on the manual path the catch around
\* the fallback swallows the error and the model failure is thrown instead;
\* on the other path the error of the store is the error of the request.
InsertFailure(e) ==
  IF fallback
  THEN Respond(500, ModelFailureMessage(lastError))
  ELSE StoreFailure(e)

\* insertChatMessages up to the await of find: connectToDatabase returns the
\* cached pair (createChatMessagesCollection returned), the documents get
\* their clock readings and insertMany writes them.
InsertMany ==
  /\ pc = "insert"
  /\ \E times \in ClockReadings(Now(store), Len(messages)) :
       store' = store \o NewDocuments(store, messages, times)
  /\ pc' = "find"
  /\ UNCHANGED <<handler, read, conn, env, file, k, calls, inflight, timers, aborted, responseText,
                 lastError, messages, fallback, stages, inserts, response>>

\* find resolves: insertChatMessages returns the inserted documents, the
\* data of the success response.
InsertOk ==
  /\ pc = "find"
  /\ inserts' = inserts + 1
  /\ stages' = stages \cup {"insert"}
  /\ response' = SuccessResponse(InsertedDocuments(store, messages), fallback)
  /\ pc' = "done"
  /\ UNCHANGED <<handler, read, conn, env, file, k, calls, inflight, timers, aborted, responseText,
                 lastError, messages, fallback, store>>

\* insertMany rejects, with the first n documents written: none when it
\* fails before a write, some when the ordered insertMany stops at a document.
InsertThrows(e, n) ==
  /\ pc = "insert"
  /\ n < Len(messages) \/ n = 0
  /\ inserts' = inserts + 1
  /\ stages' = stages \cup {"insert"}
  /\ \E times \in ClockReadings(Now(store), Len(messages)) :
       store' = store \o SubSeq(NewDocuments(store, messages, times), 1, n)
  /\ InsertFailure(e)
  /\ UNCHANGED <<handler, read, conn, env, file, k, calls, inflight, timers, aborted, responseText,
                 lastError, messages, fallback>>

\* find rejects after insertMany wrote every document.
FindThrows(e) ==
  /\ pc = "find"
  /\ inserts' = inserts + 1
  /\ stages' = stages \cup {"insert"}
  /\ InsertFailure(e)
  /\ UNCHANGED <<handler, read, conn, env, file, k, calls, inflight, timers, aborted, responseText,
                 lastError, messages, fallback, store>>

Next ==
  \/ CheckConfig
  \/ ParseForm
  \/ ReadFile
  \/ CreateCollection
  \/ ConnectResolves
  \/ \E e \in StoreErrors : ConnectRejects(e)
  \/ CreateIndexResolves
  \/ \E e \in StoreErrors : CreateIndexRejects(e)
  \/ StartAttempt
  \/ TimeoutFires
  \/ \E content \in CompletionContents : CompletionReturns(content)
  \/ \E e \in ModelErrors : CompletionThrows(e)
  \/ ManualFallback
  \/ ProcessResponse
  \/ InsertMany
  \/ InsertOk
  \/ \E e \in StoreErrors, n \in 0..Len(messages) : InsertThrows(e, n)
  \/ \E e \in StoreErrors : FindThrows(e)

Spec == Init /\ [][Next]_vars

\* The steps of the three handlers of POST.
NextUpload ==
  \/ CheckConfig
  \/ ParseForm
  \/ ReadFile
  \/ CreateCollection
  \/ ConnectResolves
  \/ \E e \in StoreErrors : ConnectRejects(e)
  \/ CreateIndexResolves
  \/ \E e \in StoreErrors : CreateIndexRejects(e)
  \/ StartAttempt
  \/ TimeoutFires
  \/ \E content \in CompletionContents : CompletionReturns(content)
  \/ \E e \in ModelErrors : CompletionThrows(e)
  \/ ManualFallback
  \/ ProcessResponse
  \/ StartSharedLoop
  \/ \E content \in CompletionContents : SharedReturns(content)
  \/ \E e \in ModelErrors : SharedThrows(e)
  \/ CallGpt4
  \/ \E content \in CompletionContents : Gpt4Returns(content)
  \/ \E e \in ModelErrors : Gpt4Throws(e)
  \/ InsertMany
  \/ InsertOk
  \/ \E e \in StoreErrors, n \in 0..Len(messages) : InsertThrows(e, n)
  \/ \E e \in StoreErrors : FindThrows(e)

SpecUpload == InitUpload /\ [][NextUpload]_vars

\* The request under the condition that the handler keeps running and every
\* completion call and every store call returns or throws. The weak fairness
\* of ManualFallback and of ProcessResponse is written out, with the guard of
\* the step for its enabling condition: each is enabled exactly when its
\* guard holds, since every branch of the step gives all variables a value
\* and changes pc.
Fairness ==
  /\ WF_vars(CheckConfig \/ ParseForm \/ ReadFile \/ StartAttempt)
  /\ WF_vars((\E content \in CompletionContents : CompletionReturns(content))
             \/ (\E e \in ModelErrors : CompletionThrows(e)))
  /\ WF_vars(CreateCollection \/ ConnectResolves \/ CreateIndexResolves
             \/ (\E e \in StoreErrors : ConnectRejects(e))
             \/ (\E e \in StoreErrors : CreateIndexRejects(e)))
  /\ WF_vars(InsertMany \/ InsertOk
             \/ (\E e \in StoreErrors, n \in 0..Len(messages) : InsertThrows(e, n))
             \/ (\E e \in StoreErrors : FindThrows(e)))
  /\ \/ []<>~(pc = "afterLoop" /\ ~Truthy(responseText))
     \/ []<><<ManualFallback>>_vars
  /\ \/ []<>~(pc = "afterLoop" /\ Truthy(responseText))
     \/ []<><<ProcessResponse>>_vars

SpecFair == Spec /\ Fairness

(***************************************************************************)
(* Properties of the upload request.                                       *)
(***************************************************************************)

Done == pc = "done"

Configured == env.OPENAI_API_KEY /\ env.MONGODB_URI

\* The records (sender, timestamp, message) of a sequence of documents.
Records(docs) ==
  [i \in 1..Len(docs) |->
     [sender |-> docs[i].sender, timestamp |-> docs[i].timestamp,
      message |-> docs[i].message]]

\* The upload is a file, or the form has no field file.
FileOrNone == file.form /\ (file.present => file.isFile)

\* The content of the file is empty or white space only.
BlankContent(f) ==
  /\ \A i \in 1..Len(f.body) : f.body[i] \in WS
  /\ f.length <= Len(f.body) + 1 \/ f.pad \in WS

\* The first validation that fails when the extension is checked before the
\* size: present, extension, size, empty, length.
FirstFailureExtensionThenSize(f) ==
  IF ~f.present THEN "No file uploaded"
  ELSE IF ~EndsWith(f.name, DotTxt) THEN "Only .txt files are allowed"
  ELSE IF f.size > maxSize THEN "File size too large. Maximum size is 4MB."
  ELSE IF BlankContent(f) THEN "File is empty"
  ELSE IF f.length > MaxContentLength
  THEN "File content too large. Please use a smaller file (max 50KB)."
  ELSE ""

\* The handlers that check the size of the file.
HasByteCeiling(h) == h \in {"POST:142", "POST:488"}

\* A configuration value the handler checks is missing.
ConfigMissing(h) == ~env.OPENAI_API_KEY \/ (h # "POST:691" /\ ~env.MONGODB_URI)

\* The first validation of the handler h that fails, the size being checked
\* before the extension: present (a field file that is there and is not the
\* empty text), size in bytes (where h has a byte ceiling),
\* extension, empty, length in characters (where h has a character ceiling).
FirstFailureSizeThenExtension(h, f) ==
  IF ~f.present \/ (~f.isFile /\ f.body = <<>>) THEN "No file uploaded"
  ELSE IF HasByteCeiling(h) /\ f.size > maxSize THEN "File size too large. Maximum size is 4MB."
  ELSE IF ~EndsWith(f.name, DotTxt) THEN "Only .txt files are allowed"
  ELSE IF BlankContent(f) THEN "File is empty"
  ELSE IF h = "POST:142" /\ f.length > 50000
  THEN "File content too large. Please use a smaller file (max 50KB)."
  ELSE IF h = "POST:488" /\ f.length > 100000
  THEN "File content too large. Please use a smaller file."
  ELSE ""

\* C1 as claimed: the validations are applied in the order present, extension,
\* size, empty, length, and the response is the error of the first that fails
\* (so a file with a wrong extension and too many bytes gets the extension
\* error); stated for the handler of line 142 with its configuration present
\* and a file or no field in the form.
C1_OrderExtensionBeforeSize ==
  (Done /\ handler = "POST:142" /\ Configured /\ FileOrNone) =>
    /\ (response.status = 400) <=> (FirstFailureExtensionThenSize(file) # "")
    /\ (response.status = 400) => response.error.msg = FirstFailureExtensionThenSize(file)

\* C1 amended: a request that lacks a configuration value its handler checks
\* is answered 500 with the configuration error; a body that is no form, or
\* whose field file is a text value that is not empty, is answered 500;
\* every other request is answered 400 exactly when one of the validations of
\* its handler fails, with the error of the first that fails in the order
\* present, size, extension, empty, length: a file with a wrong extension and
\* too many bytes gets the size error where the size is checked and the
\* extension error in the handler of line 691.
C1_OrderSizeBeforeExtension ==
  Done =>
    IF ConfigMissing(handler)
    THEN /\ response.status = 500
         /\ response.error.msg \in {"OpenAI API key not configured",
                                    "Database connection not configured"}
    ELSE IF ~file.form \/ (file.present /\ ~file.isFile /\ file.body # <<>>)
    THEN response.status = 500
    ELSE /\ (response.status = 400) <=> (FirstFailureSizeThenExtension(handler, file) # "")
         /\ (response.status = 400) =>
              response.error.msg = FirstFailureSizeThenExtension(handler, file)

\* C1 witness: a file with a wrong extension, with more bytes than the
\* ceiling and fewer characters, was answered with the size error.
C1_Witness ==
  /\ Done /\ Configured /\ file.isFile
  /\ ~EndsWith(file.name, DotTxt)
  /\ file.size > maxSize /\ file.length < maxSize
  /\ response.status = 400
  /\ response.error.msg = "File size too large. Maximum size is 4MB."

EmptyUpload ==
  /\ file.isFile
  /\ EndsWith(file.name, DotTxt)
  /\ BlankContent(file)

\* C3 as claimed: an empty upload is answered 400 "File is empty" whatever
\* the configuration.
C3_EmptyFileAlways400 ==
  (Done /\ EmptyUpload) =>
    (response.status = 400 /\ response.error.msg = "File is empty")

\* C3 amended: an empty upload is answered 500 with the configuration error
\* when a configuration value its handler checks is missing; otherwise 400
\* "File size too large" when its handler checks the size and the file has
\* more bytes than the ceiling, and 400 "File is empty" in every other case.
C3_EmptyFile400WhenConfigured ==
  (Done /\ EmptyUpload) =>
    IF ~env.OPENAI_API_KEY
    THEN response.status = 500 /\ response.error.msg = "OpenAI API key not configured"
    ELSE IF handler # "POST:691" /\ ~env.MONGODB_URI
    THEN response.status = 500 /\ response.error.msg = "Database connection not configured"
    ELSE IF HasByteCeiling(handler) /\ file.size > maxSize
    THEN /\ response.status = 400
         /\ response.error.msg = "File size too large. Maximum size is 4MB."
    ELSE response.status = 400 /\ response.error.msg = "File is empty"

\* C3 witness: a white-space-only upload was answered 400 "File is empty"
\* under a full configuration.
C3_Witness ==
  /\ Done /\ EmptyUpload /\ Configured
  /\ file.length > 0
  /\ response.status = 400
  /\ response.error.msg = "File is empty"

\* The loop is over: the handler is past the last attempt.
LoopOver == pc \in {"afterLoop", "insert", "find"} \/ (Done /\ "completion" \in stages)

\* The part of C4 about the order of the calls: the calls are the candidates
\* in their fixed order, one at a time (attempt k+1 starts only when attempt
\* k has settled), none follows the first non-empty text, which is the raw
\* response, and at most 3 are issued.
SequentialInOrder ==
  /\ calls = SubSeq(<<"gpt-3.5-turbo", "gpt-4o-mini", "gpt-4">>, 1, Len(calls))
  /\ Len(calls) <= 3
  /\ pc = "await" => (inflight = {Len(calls)} /\ k = Len(calls))
  /\ pc # "await" => inflight = {}
  /\ Truthy(responseText) => (LoopOver /\ Len(calls) = k /\ responseText.t = "str")
  /\ LoopOver => Len(calls) >= 1

\* C4 as claimed: SequentialInOrder, and every request that passes validation
\* issues at least 1 completion call.
C4_AtLeastOneCallAfterValidation ==
  /\ SequentialInOrder
  /\ (Done /\ Configured /\ FirstFailureSizeThenExtension(handler, file) = "") => Len(calls) >= 1

\* C4 amended: SequentialInOrder, and every request that passes validation
\* and whose collection set-up returns issues at least 1 and at most 3
\* completion calls (a request whose collection set-up throws issues none).
C4_SequentialAttempts ==
  /\ SequentialInOrder
  /\ (Done /\ Configured /\ FirstFailureSizeThenExtension(handler, file) = "") =>
       IF "completion" \in stages
       THEN Len(calls) \in 1..3
       ELSE Len(calls) = 0 /\ response.status = 500

\* C4 witness: the second candidate returned text after the first ended
\* without, and the request is over.
C4_Witness ==
  /\ Done /\ Truthy(responseText)
  /\ calls = <<"gpt-3.5-turbo", "gpt-4o-mini">>

ManualApplies ==
  /\ LoopOver /\ ~Truthy(responseText)
  /\ "manual" \in stages
  /\ Len(parseChatManually(file.body)) > 0

\* C6 as claimed: when the manual fallback applies the request succeeds with
\* exactly the manual parser's records and fallback: true, and no
\* sanitization, JSON parse, key/value recovery or validation ran.
C6_FallbackAlwaysSucceeds ==
  (Done /\ ManualApplies) =>
    /\ response.success /\ response.fallback
    /\ Records(response.data) = parseChatManually(file.body)
    /\ stages \cap {"sanitize", "jsonparse", "kv", "validation"} = {}

\* C6 amended: when the manual fallback applies, exactly the manual parser's
\* records are handed to the store in one insert and no sanitization, JSON
\* parse, key/value recovery or validation runs; the request succeeds, with
\* those records in order and fallback: true, exactly when that insert
\* returns, and is answered 500 when it throws.
C6_FallbackRecords ==
  ManualApplies =>
    /\ stages \cap {"sanitize", "jsonparse", "kv", "validation"} = {}
    /\ messages = parseChatManually(file.body)
    /\ fallback
    /\ pc \in {"insert", "find", "done"}
    /\ Done =>
         /\ inserts = 1
         /\ response.success =>
              /\ response.status = 200 /\ response.fallback
              /\ Records(response.data) = parseChatManually(file.body)
              /\ Records(store) = parseChatManually(file.body)
         /\ ~response.success => response.status = 500

\* C6 witness: a file with one line of the third format was answered from
\* the manual parser.
C6_Witness ==
  /\ Done /\ ManualApplies /\ response.success
  /\ Len(response.data) = 1

\* C7: when every candidate ended without text and the manual parser has no
\* record, the request fails, with the timeout error exactly when the last
\* error of an attempt was a timeout or abort (name AbortError, or a message
\* containing "aborted"), and with "All models failed" and the last error's
\* message otherwise.
C7_TimeoutDistinguished ==
  (Done /\ "manual" \in stages /\ Len(parseChatManually(file.body)) = 0) =>
    /\ ~response.success /\ response.status = 500
    /\ IF lastError.set /\ (lastError.name = "AbortError" \/ Includes(lastError.message, Aborted))
       THEN response.error.msg =
              "Request timeout - file processing took too long. Please try with a smaller file."
       ELSE /\ response.error.msg = "All models failed. Last error: "
            /\ response.error.arg = IF lastError.set THEN lastError.message ELSE UnknownError

(***************************************************************************)
(* The request from the end of the model loop on, for the texts a          *)
(* candidate returns when it answers with JSON: the text of a JSON value   *)
(* in a compact or an indented layout.                                     *)
(***************************************************************************)

\* The length of the longest array of the answers.
MaxArr == 2

RECURSIVE DigitsText(_)
\* The decimal digits of a natural number.
DigitsText(n) ==
  IF n < 10 THEN <<Digits[n + 1]>>
  ELSE DigitsText(n \div 10) \o <<Digits[(n % 10) + 1]>>

\* The decimal digits of an integer, after its sign.
IntegerText(n) == IF n < 0 THEN <<"-">> \o DigitsText(0 - n) ELSE DigitsText(n)

\* A text of the number v: its digits, and its power of ten as an exponent
\* when it has one.
NumberText(v) ==
  IF v.e = 0 THEN IntegerText(v.n)
  ELSE IntegerText(v.n) \o <<"e">> \o IntegerText(v.e)

RECURSIVE EscapedText(_)
\* The characters of a text as they are written between the quotes of a
\* JSON text: the quote, the backslash and the line feed as escapes.
EscapedText(t) ==
  IF t = <<>> THEN <<>>
  ELSE (CASE t[1] = "\"" -> <<"\\", "\"">>
          [] t[1] = "\\" -> <<"\\", "\\">>
          [] t[1] = "\n" -> <<"\\", "n">>
          [] OTHER -> <<t[1]>>) \o EscapedText(Tail(t))

RECURSIVE Stringify(_, _)
RECURSIVE StringifyElements(_, _)
RECURSIVE StringifyMembers(_, _)

\* The text of the elements of an array, sp after each comma.
StringifyElements(a, sp) ==
  IF a = <<>> THEN <<>>
  ELSE IF Len(a) = 1 THEN Stringify(a[1], sp)
  ELSE Stringify(a[1], sp) \o <<",">> \o sp \o StringifyElements(Tail(a), sp)

\* The text of the members of an object, sp after each colon and comma.
StringifyMembers(o, sp) ==
  IF o = <<>> THEN <<>>
  ELSE <<"\"">> \o o[1].k \o <<"\"", ":">> \o sp \o Stringify(o[1].v, sp)
       \o (IF Len(o) = 1 THEN <<>> ELSE <<",">> \o sp \o StringifyMembers(Tail(o), sp))

\* The JSON text of the value v, with the white space sp between its tokens.
Stringify(v, sp) ==
  CASE v.t = "null" -> <<"n", "u", "l", "l">>
    [] v.t = "bool" -> (IF v.b THEN <<"t", "r", "u", "e">> ELSE <<"f", "a", "l", "s", "e">>)
    [] v.t = "num" -> NumberText(v)
    [] v.t = "str" -> <<"\"">> \o EscapedText(v.s) \o <<"\"">>
    [] v.t = "arr" -> <<"[">> \o sp \o StringifyElements(v.a, sp) \o sp \o <<"]">>
    [] v.t = "obj" -> <<"{">> \o sp \o StringifyMembers(v.o, sp) \o sp \o <<"}">>

\* The member of an object for a key, none when the value is undefined.
MemberOf(key, v) == IF v = JUndefined THEN <<>> ELSE <<[k |-> key, v |-> v]>>

\* The object with the three keys of a message (each left out when its value
\* is undefined) followed by the members extra.
ObjectOf(sender, timestamp, message, extra) ==
  JObj(MemberOf(KeySender, sender) \o MemberOf(KeyTimestamp, timestamp)
       \o MemberOf(KeyMessage, message) \o extra)

\* The values of a key of an answer: absent, null, texts (empty, plain, with
\* a bracket, with a quote, a backslash and a line feed), numbers (0, 7 and
\* -1.5) and booleans.
FieldValues ==
  {JUndefined, JNull, JStr(<<>>), JStr(<<"h", "i">>), JStr(<<"a", "]">>),
   JStr(<<"\"", "\\", "\n">>), JNum(0), JNum(7), JNumber(-15, -1),
   JBool(FALSE), JBool(TRUE)}

\* The objects an answer is made of: a full record, a record with falsy
\* values and a key the code does not read, an empty object, a record whose
\* message has a bracket.
AnswerObjects ==
  {ObjectOf(JStr(<<"A", "l">>), JStr(<<"1", "0", ":", "0", "0">>), JStr(<<"h", "i">>), <<>>),
   ObjectOf(JStr(<<>>), JNull, JStr(<<"h", "i">>), <<[k |-> <<"i", "d">>, v |-> JNum(7)]>>),
   JObj(<<>>),
   ObjectOf(JStr(<<"B", "o">>), JUndefined, JStr(<<"a", "]">>), <<>>)}

\* The elements of the arrays of an answer: the objects, and values that
\* are not objects.
AnswerElements ==
  AnswerObjects \cup
  {JNull, JNum(0), JNum(7), JStr(<<"x">>), JBool(TRUE), JBool(FALSE), JArr(<<>>)}

\* The layouts of an answer: compact, and indented (with the same white
\* space around the text).
Layouts == {<<>>, <<"\n", " ">>}

\* The values a candidate answers with: the arrays of up to MaxArr elements,
\* the arrays of one object over all values of the three keys, the objects.
AnswerValues ==
  UNION {{JArr(a) : a \in [1..n -> AnswerElements]} : n \in 0..MaxArr}
  \cup {JArr(<<ObjectOf(s, t, m, <<>>)>>) : s \in FieldValues, t \in FieldValues, m \in FieldValues}
  \cup AnswerObjects

\* Answers with numerals at the ends of the doubles: 1e-400 and 0.0000001e-317
\* are 0, -0.0 is -0, 1e400 is Infinity and -2E+308 is -Infinity.
NumeralAnswers ==
  {[val |-> JArr(<<ObjectOf(JNum(0), JInfinity(1), JStr(<<"h", "i">>), <<>>)>>),
    text |-> <<"[", "{", "\"", "s", "e", "n", "d", "e", "r", "\"", ":", "1", "e", "-", "4", "0", "0", ",", "\"", "t", "i", "m", "e", "s", "t", "a", "m", "p", "\"", ":", "1", "e", "4", "0", "0", ",", "\"", "m", "e", "s", "s", "a", "g", "e", "\"", ":", "\"", "h", "i", "\"", "}", "]">>],
   [val |-> JArr(<<ObjectOf(JInfinity(-1), JNum(0), JNum(0), <<>>)>>),
    text |-> <<"[", "{", "\"", "s", "e", "n", "d", "e", "r", "\"", ":", "-", "2", "E", "+", "3", "0", "8", ",", "\"", "t", "i", "m", "e", "s", "t", "a", "m", "p", "\"", ":", "-", "0", ".", "0", ",", "\"", "m", "e", "s", "s", "a", "g", "e", "\"", ":", "0", ".", "0", "0", "0", "0", "0", "0", "1", "e", "-", "3", "1", "7", "}", "]">>]}

\* The answers: a value and the text the candidate returns for it.
Answers ==
  {[val |-> v, text |-> sp \o Stringify(v, sp) \o sp] : v \in AnswerValues, sp \in Layouts}
  \cup NumeralAnswers

\* The state when the first candidate has returned text for a valid upload.
InitAfterLoop ==
  /\ handler = "POST:142"
  /\ env = [OPENAI_API_KEY |-> TRUE, MONGODB_URI |-> TRUE]
  /\ file = UploadedFile(<<"c", "h", "a", "t", ".", "t", "x", "t">>,
                          <<"h", "e", "l", "l", "o">>, "\n", 5)
  /\ pc = "afterLoop"
  /\ k = 1
  /\ calls = <<models[1]>>
  /\ inflight = {}
  /\ timers = {}
  /\ aborted = {}
  /\ responseText \in {JStr(c.text) : c \in Answers} \cup {JStr(t) : t \in ResponseTexts}
  /\ lastError = NoError
  /\ messages = <<>>
  /\ fallback = FALSE
  /\ stages = {"formData", "text", "collection", "completion"}
  /\ store = <<>>
  /\ inserts = 0
  /\ response = NoResponse
  /\ read = NoRead
  /\ conn = Connected

NextAfterLoop ==
  \/ ProcessResponse
  \/ InsertMany
  \/ InsertOk
  \/ \E e \in StoreErrors, n \in 0..Len(messages) : InsertThrows(e, n)
  \/ \E e \in StoreErrors : FindThrows(e)

SpecAfterLoop == InitAfterLoop /\ [][NextAfterLoop]_vars

(***************************************************************************)
(* Properties of the request from the end of the model loop on.            *)
(***************************************************************************)

\* The validated records were handed to the store.
HandedToStore == pc \in {"insert", "find"} \/ "insert" \in stages

\* An array all of whose elements are objects.
ArrayOfObjects(v) == v.t = "arr" /\ \A i \in 1..Len(v.a) : v.a[i].t = "obj"

\* C8: when the response text is a clean JSON array of objects, with or
\* without white space around it, the records handed to the store are the
\* elements of the array, normalized, as many and in the same order, and the
\* key/value recovery does not run.
C8_CleanArrayPreserved ==
  \A c \in Answers :
    (responseText = JStr(c.text) /\ ArrayOfObjects(c.val) /\ pc # "afterLoop") =>
      /\ HandedToStore
      /\ "kv" \notin stages
      /\ Len(messages) = Len(c.val.a)
      /\ \A i \in 1..Len(c.val.a) : messages[i] = NormalizeMessage(c.val.a[i])

\* C8 witness: an indented array of two different objects, one with a
\* bracket in its message, was handed to the store in its order.
C8_Witness ==
  /\ Done /\ response.success
  /\ \E c \in Answers :
       /\ responseText = JStr(c.text)
       /\ c.text[1] = "\n"
       /\ ArrayOfObjects(c.val)
  /\ Len(messages) = 2
  /\ messages[1].sender = JStr(<<"A", "l">>) /\ messages[1].message = JStr(<<"h", "i">>)
  /\ messages[2].sender = JStr(<<"B", "o">>) /\ messages[2].message = JStr(<<"a", "]">>)

\* The falsy values of a key: missing, null, the empty text, 0 and false.
Falsy(v) == v \in {JUndefined, JNull, JStr(<<>>), JNum(0), JBool(FALSE)}

\* C9: the record of an element that passes validation has the three fields
\* sender, timestamp and message and no other; sender and timestamp are
\* "Unknown" when the element's value is falsy, message is the empty text
\* when falsy, and a value that is not falsy is kept unchanged.
C9_NormalizationDefaults ==
  \A c \in Answers :
    (responseText = JStr(c.text) /\ HandedToStore) =>
      /\ Len(messages) = Len(c.val.a)
      /\ \A i \in 1..Len(messages) :
           LET sender == Prop(c.val.a[i], KeySender)
               timestamp == Prop(c.val.a[i], KeyTimestamp)
               message == Prop(c.val.a[i], KeyMessage)
           IN /\ DOMAIN messages[i] = {"sender", "timestamp", "message"}
              /\ messages[i].sender = IF Falsy(sender) THEN JStr(Unknown) ELSE sender
              /\ messages[i].timestamp = IF Falsy(timestamp) THEN JStr(Unknown) ELSE timestamp
              /\ messages[i].message = IF Falsy(message) THEN JStr(<<>>) ELSE message

\* C9 witness: the element with an empty sender, a null timestamp, the
\* message "hi" and a key id was stored as Unknown, Unknown, "hi".
C9_Witness ==
  /\ Done /\ response.success
  /\ responseText =
       JStr(Stringify(JArr(<<ObjectOf(JStr(<<>>), JNull, JStr(<<"h", "i">>),
                                      <<[k |-> <<"i", "d">>, v |-> JNum(7)]>>)>>), <<>>))
  /\ Records(store) = <<[sender |-> JStr(Unknown), timestamp |-> JStr(Unknown),
                         message |-> JStr(<<"h", "i">>)]>>

\* A value that is not a non-null object: null, a number, a text, a boolean.
NotAnObject(v) == v.t \in {"null", "num", "str", "bool"}

\* C10: after a successful JSON parse, a value that is not an array fails
\* the request with "Expected an array of messages"; an array with an
\* element that is not a non-null object fails it with the index of the
\* first such element; every other array passes validation; nothing is
\* inserted by a request that fails validation.
C10_ValidationErrors ==
  \A c \in Answers :
    (responseText = JStr(c.text) /\ pc # "afterLoop") =>
      /\ "jsonparse" \in stages /\ "kv" \notin stages
      /\ IF c.val.t # "arr"
         THEN /\ Done /\ response.status = 500 /\ ~response.success
              /\ response.error.msg = "Expected an array of messages"
              /\ inserts = 0 /\ store = <<>>
         ELSE IF \E i \in 1..Len(c.val.a) : NotAnObject(c.val.a[i])
         THEN /\ Done /\ response.status = 500 /\ ~response.success
              /\ response.error.msg = "Invalid message at index "
              /\ response.error.idx + 1 \in 1..Len(c.val.a)
              /\ NotAnObject(c.val.a[response.error.idx + 1])
              /\ \A j \in 1..response.error.idx : ~NotAnObject(c.val.a[j])
              /\ inserts = 0 /\ store = <<>>
         ELSE HandedToStore

\* C10 witness: an array whose second element is null, after an object, was
\* refused with index 1.
C10_Witness ==
  /\ Done
  /\ responseText = JStr(Stringify(JArr(<<JObj(<<>>), JNull>>), <<>>))
  /\ response.error.msg = "Invalid message at index "
  /\ response.error.idx = 1

(***************************************************************************)
(* Properties of the key/value recovery.                                   *)
(***************************************************************************)

\* The text with one line that has the key sender with the value Bob, and
\* neither a timestamp nor a message key.
BobText == <<"H", "e", "r", "e", ":", " ", "\"", "s", "e", "n", "d", "e", "r", "\"", ":", " ", "\"", "B", "o", "b", "\"", ",">>

BobRecord == [sender |-> JStr(<<"B", "o", "b">>), timestamp |-> JStr(Unknown),
              message |-> JStr(<<>>)]

\* C11: when the first candidate timed out and the second returned the text
\* with the one line "sender": "Bob", which does not clean to valid JSON, the
\* third candidate is never called, the manual parser does not run, and the
\* records of the request are the single record Bob, Unknown, empty message,
\* recovered by the key/value step.
C11_KeyValueRecovery ==
  (1 \in aborted /\ k = 2 /\ responseText = JStr(BobText)) =>
    /\ ~JSONParse(CleanResponse(BobText)).ok
    /\ calls = <<"gpt-3.5-turbo", "gpt-4o-mini">>
    /\ pc \in {"afterLoop", "insert", "find", "done"}
    /\ "manual" \notin stages
    /\ pc # "afterLoop" =>
         /\ {"sanitize", "jsonparse", "kv", "validation"} \subseteq stages
         /\ messages = <<BobRecord>>
    /\ Done =>
         /\ inserts = 1
         /\ response.success => Records(response.data) = <<BobRecord>>
         /\ ~response.success => response.status = 500

\* C11 witness: the scenario ended with the record of Bob in the response.
C11_Witness ==
  /\ Done /\ response.success
  /\ 1 \in aborted /\ k = 2 /\ responseText = JStr(BobText)
  /\ Records(response.data) = <<BobRecord>>

(***************************************************************************)
(* The request from the end of a model loop in which no candidate returned *)
(* text, for the files of a chat log: lines made of a timestamp (in        *)
(* brackets or not), a sender, a colon and a message, each of which may be *)
(* missing.                                                                *)
(***************************************************************************)

\* The number of lines of the longest chat log of several lines.
MaxLines == 2

\* The text of a line from its parts.
LineText(l) ==
  (IF l.bracket THEN <<"[">> \o l.ts \o <<"]">> ELSE l.ts) \o l.gap \o l.sender
  \o (IF l.colon THEN <<":">> ELSE <<>>) \o l.gap2 \o l.msg

\* The lines of a chat log, by their parts.
ChatLines ==
  [bracket : BOOLEAN,
   ts : {<<"1", "0", ":", "0", "0">>, <<"1">>, <<>>},
   gap : {<<>>, <<" ">>, <<"\f">>},
   sender : {<<"A", "l", "i", "c", "e">>, <<>>, <<"A", "l", " ", "B", "e">>, <<"a", "]">>},
   colon : BOOLEAN,
   gap2 : {<<>>, <<" ">>, <<"\f">>},
   msg : {<<"h", "i">>, <<>>, <<"a", ":", " ", "b">>}]

Line(b, ts, gap, sender, colon, gap2, msg) ==
  [bracket |-> b, ts |-> ts, gap |-> gap, sender |-> sender, colon |-> colon,
   gap2 |-> gap2, msg |-> msg]

\* The lines of the chat logs of several lines: one of each format, a line
\* of no format and a blank line.
SomeLines ==
  {Line(TRUE, <<"1", "0", ":", "0", "0">>, <<" ">>, <<"A", "l", "i", "c", "e">>, TRUE, <<" ">>, <<"h", "i">>),
   Line(FALSE, <<"1", "0", ":", "0", "0">>, <<" ">>, <<"B", "o", "b">>, TRUE, <<" ">>, <<"a", ":", " ", "b">>),
   Line(FALSE, <<>>, <<>>, <<"A", "l", "i", "c", "e">>, TRUE, <<>>, <<"h", "i">>),
   Line(FALSE, <<>>, <<>>, <<"A", "l", "i", "c", "e">>, FALSE, <<>>, <<>>),
   Line(FALSE, <<>>, <<" ">>, <<>>, FALSE, <<>>, <<>>)}

RECURSIVE JoinLines(_)
\* The text of a file from its lines.
JoinLines(ls) ==
  IF ls = <<>> THEN <<>>
  ELSE IF Len(ls) = 1 THEN LineText(ls[1])
  ELSE LineText(ls[1]) \o <<"\n">> \o JoinLines(Tail(ls))

\* The chat logs: every one-line log, and the logs of up to MaxLines of
\* SomeLines; each with its lines and its text.
ChatLogs ==
  {[lines |-> ls, text |-> JoinLines(ls)] :
     ls \in {<<l>> : l \in ChatLines} \cup UNION {[1..n -> SomeLines] : n \in 2..MaxLines}}

\* The state when the three candidates have ended without text for a valid
\* upload.
InitManual ==
  /\ handler = "POST:142"
  /\ env = [OPENAI_API_KEY |-> TRUE, MONGODB_URI |-> TRUE]
  /\ file \in {UploadedFile(<<"c", "h", "a", "t", ".", "t", "x", "t">>, c.text, "\n", Len(c.text)) :
                 c \in {d \in ChatLogs : Trim(d.text) # <<>>}}
  /\ pc = "afterLoop"
  /\ k = 3
  /\ calls = models
  /\ inflight = {}
  /\ timers = {}
  /\ aborted = {}
  /\ responseText \in {JUndefined, JStr(<<>>)}
  /\ lastError \in {NoError} \cup ModelErrors
  /\ messages = <<>>
  /\ fallback = FALSE
  /\ stages = {"formData", "text", "collection", "completion"}
  /\ store = <<>>
  /\ inserts = 0
  /\ response = NoResponse
  /\ read = NoRead
  /\ conn = Connected

NextManual ==
  \/ ManualFallback
  \/ InsertMany
  \/ InsertOk
  \/ \E e \in StoreErrors, n \in 0..Len(messages) : InsertThrows(e, n)
  \/ \E e \in StoreErrors : FindThrows(e)

SpecManual == InitManual /\ [][NextManual]_vars

(***************************************************************************)
(* Properties of the manual parser.                                        *)
(***************************************************************************)

\* A line of the first format, by its parts: a non-empty timestamp in
\* brackets, at least one character before the colon, a message.
IsFormat1(l) ==
  /\ l.bracket /\ l.ts # <<>>
  /\ l.gap \o l.sender # <<>>
  /\ l.colon
  /\ Trim(l.gap2 \o l.msg) # <<>>

\* The record of a line of the first format.
Format1Record(l) ==
  [sender |-> JStr(Trim(l.sender)), timestamp |-> JStr(Trim(l.ts)),
   message |-> JStr(Trim(l.msg))]

\* C12: a line of the first format gives exactly one record, the one of the
\* first format (the timestamp between the brackets, the sender before the
\* colon, the message after it), never one of the second or third format;
\* so a file whose lines are all of the first format gives their records,
\* one for each line, in order.
C12_Format1First ==
  \A c \in ChatLogs :
    (file.body = c.text /\ "manual" \in stages
     /\ \A i \in 1..Len(c.lines) : IsFormat1(c.lines[i])) =>
      /\ messages = [i \in 1..Len(c.lines) |-> Format1Record(c.lines[i])]
      /\ \A i \in 1..Len(c.lines) :
           /\ MatchFormat3(LineText(c.lines[i])) # <<>>
           /\ messages[i] # MatchFormat3(LineText(c.lines[i]))[1]

\* C12 witness: the file with the line [10:00] Alice: hi was parsed to the
\* record with timestamp 10:00, sender Alice, message hi.
C12_Witness ==
  /\ "manual" \in stages
  /\ file.body = <<"[", "1", "0", ":", "0", "0", "]", " ", "A", "l", "i", "c", "e", ":", " ", "h", "i">>
  /\ messages = <<[sender |-> JStr(<<"A", "l", "i", "c", "e">>), timestamp |-> JStr(<<"1", "0", ":", "0", "0">>),
                   message |-> JStr(<<"h", "i">>)]>>

\* A line of the third format, by its parts: no timestamp, a sender without
\* colon, white space or bracket, the colon, a message.
IsFormat3(l) ==
  /\ ~l.bracket /\ l.ts = <<>> /\ l.gap = <<>>
  /\ l.sender # <<>>
  /\ \A i \in 1..Len(l.sender) : l.sender[i] \notin WS \cup {":", "[", "]"}
  /\ l.colon
  /\ Trim(l.gap2 \o l.msg) # <<>>

\* The record of a line of the third format.
Format3Record(l) ==
  [sender |-> JStr(l.sender), timestamp |-> JStr(Unknown), message |-> JStr(Trim(l.msg))]

\* C22: a file of one line of the third format, whatever its message, gives
\* the one record with the text before the first colon for sender, Unknown
\* for timestamp and the text after that colon for message.
C22_Format3Record ==
  \A c \in ChatLogs :
    (file.body = c.text /\ "manual" \in stages
     /\ Len(c.lines) = 1 /\ IsFormat3(c.lines[1])) =>
      messages = <<Format3Record(c.lines[1])>>

\* The same for the messages in which no colon comes after white space.
Format3RecordOfPlainMessage ==
  \A c \in ChatLogs :
    (file.body = c.text /\ "manual" \in stages
     /\ Len(c.lines) = 1 /\ IsFormat3(c.lines[1])
     /\ ~Includes(c.lines[1].gap2 \o c.lines[1].msg, <<":">>)) =>
      messages = <<Format3Record(c.lines[1])>>

\* The records the three patterns give for a line that is not blank.
LineRecords(l) ==
  LET t == Trim(LineText(l)) IN
    IF t = <<>> THEN {}
    ELSE {m[1] : m \in {x \in {MatchFormat1(t), MatchFormat2(t), MatchFormat3(t)} : x # <<>>}}

\* The strictly increasing maps from the records to the lines.
LinesOfRecords(n, m) ==
  {f \in [1..n -> 1..m] : \A i \in 1..n, j \in 1..n : i < j => f[i] < f[j]}

\* C23: the records of the manual parser are at most one for each line that
\* is not blank, in the order of their lines, each a record one of the three
\* patterns gives for its line; blank lines and lines that match no pattern
\* give no record, and the parser ends without an error whatever the text.
C23_LossyByOmission ==
  \A c \in ChatLogs :
    (file.body = c.text /\ "manual" \in stages) =>
      /\ fallback <=> (pc \in {"insert", "find"} \/ "insert" \in stages)
      /\ \E f \in LinesOfRecords(Len(messages), Len(c.lines)) :
           \A j \in 1..Len(messages) : messages[j] \in LineRecords(c.lines[f[j]])

\* C23: a file of a line that matches no pattern and a line of the third
\* format gave one record, the one of the second line.
C23_Witness ==
  /\ "manual" \in stages
  /\ file.body = <<"A", "l", "i", "c", "e", "\n", "A", "l", "i", "c", "e", ":", "h", "i">>
  /\ messages = <<[sender |-> JStr(<<"A", "l", "i", "c", "e">>), timestamp |-> JStr(Unknown),
                   message |-> JStr(<<"h", "i">>)]>>

(***************************************************************************)
(* The request from the end of the model loop on, for the texts in bracket *)
(* form: a '[', any characters, a ']'.                                     *)
(***************************************************************************)

\* The number of characters between the brackets of the longest text.
MaxInner == 3

\* The characters between the brackets.
InnerCharacters == {"[", "]", "{", "}", Backtick, " ", "\n", "\f", "a"}

\* The texts that start with '[' and end with ']'.
BracketTexts ==
  {<<"[">> \o x \o <<"]">> : x \in UNION {[1..n -> InnerCharacters] : n \in 0..MaxInner}}

\* The state when the first candidate has returned a text in bracket form
\* for a valid upload.
InitBracket ==
  /\ handler = "POST:142"
  /\ env = [OPENAI_API_KEY |-> TRUE, MONGODB_URI |-> TRUE]
  /\ file = UploadedFile(<<"c", "h", "a", "t", ".", "t", "x", "t">>,
                          <<"h", "e", "l", "l", "o">>, "\n", 5)
  /\ pc = "afterLoop"
  /\ k = 1
  /\ calls = <<models[1]>>
  /\ inflight = {}
  /\ timers = {}
  /\ aborted = {}
  /\ responseText \in {JStr(t) : t \in BracketTexts}
  /\ lastError = NoError
  /\ messages = <<>>
  /\ fallback = FALSE
  /\ stages = {"formData", "text", "collection", "completion"}
  /\ store = <<>>
  /\ inserts = 0
  /\ response = NoResponse
  /\ read = NoRead
  /\ conn = Connected

SpecBracket == InitBracket /\ [][NextAfterLoop]_vars

\* A text in bracket form.
BracketForm(t) == Len(t) >= 2 /\ t[1] = "[" /\ t[Len(t)] = "]"

\* C13: the clean-up returns a text in bracket form unchanged, and applied
\* twice it gives what it gives applied once; so what the request does with
\* such a text is what JSON.parse makes of the text itself.
C13_SanitizerIdempotent ==
  (responseText.t = "str" /\ BracketForm(responseText.s)) =>
    /\ CleanResponse(responseText.s) = responseText.s
    /\ CleanResponse(CleanResponse(responseText.s)) = CleanResponse(responseText.s)
    /\ "sanitize" \in stages => ("kv" \in stages <=> ~JSONParse(responseText.s).ok)

\* C13 witness: the clean-up ran on a text in bracket form that has a
\* bracket, a brace and a fence character inside.
C13_Witness ==
  /\ "sanitize" \in stages
  /\ responseText = JStr(<<"[", "]", "}", Backtick, "]">>)

(***************************************************************************)
(* The request from the end of the model loop on, for the answers that     *)
(* wrap a JSON array in a fenced code block and in prose.                  *)
(***************************************************************************)

\* The length of the longest wrapped array.
MaxWrapped == 2

\* The elements of the wrapped arrays: a full record, a record whose message
\* has a bracket, a number and a text.
WrappedElements ==
  {ObjectOf(JStr(<<"A", "l">>), JStr(<<"1", "0", ":", "0", "0">>), JStr(<<"h", "i">>), <<>>),
   ObjectOf(JStr(<<"B", "o">>), JUndefined, JStr(<<"a", "]">>), <<>>),
   JNum(7), JStr(<<"x">>)}

\* The opening fences: none, plain, with the json tag.
OpeningFences == {<<>>, Fence \o <<"\n">>, FenceJson \o <<"\n">>}

\* The prose before and after: none, or words without brackets and braces.
ProseBefore == {<<>>, <<"H", "e", "r", "e", " ", "i", "s", " ", "t", "h", "e", " ", "l", "i", "s", "t", ":", "\n">>}

ProseAfter == {<<>>, <<"\n", "D", "o", "n", "e", ".">>}

\* The text of an array in a fence and in prose.
Wrap(before, open, array, after) ==
  before \o open \o array \o (IF open = <<>> THEN <<>> ELSE <<"\n">> \o Fence) \o after

\* The wrapped answers: the array, its JSON text and the text the candidate
\* returns.
WrappedAnswers ==
  {[val |-> JArr(a), array |-> Stringify(JArr(a), sp),
    text |-> Wrap(b, o, Stringify(JArr(a), sp), f)] :
     a \in UNION {[1..n -> WrappedElements] : n \in 0..MaxWrapped},
     sp \in Layouts, b \in ProseBefore, o \in OpeningFences, f \in ProseAfter}

\* The state when the first candidate has returned a wrapped array for a
\* valid upload.
InitWrapped ==
  /\ handler = "POST:142"
  /\ env = [OPENAI_API_KEY |-> TRUE, MONGODB_URI |-> TRUE]
  /\ file = UploadedFile(<<"c", "h", "a", "t", ".", "t", "x", "t">>,
                          <<"h", "e", "l", "l", "o">>, "\n", 5)
  /\ pc = "afterLoop"
  /\ k = 1
  /\ calls = <<models[1]>>
  /\ inflight = {}
  /\ timers = {}
  /\ aborted = {}
  /\ responseText \in {JStr(w.text) : w \in WrappedAnswers}
  /\ lastError = NoError
  /\ messages = <<>>
  /\ fallback = FALSE
  /\ stages = {"formData", "text", "collection", "completion"}
  /\ store = <<>>
  /\ inserts = 0
  /\ response = NoResponse
  /\ read = NoRead
  /\ conn = Connected

SpecWrapped == InitWrapped /\ [][NextAfterLoop]_vars

\* C24: for a JSON array in a fenced code block, with or without the json
\* tag, and between prose without brackets and braces, the clean-up gives
\* the text of the array itself; so JSON.parse takes it, the key/value
\* recovery does not run, and an array of objects reaches the store as its
\* normalized elements.
C24_WrappedArrayRecovered ==
  \A w \in WrappedAnswers :
    responseText = JStr(w.text) =>
      /\ CleanResponse(w.text) = w.array
      /\ pc # "afterLoop" =>
           /\ {"sanitize", "jsonparse"} \subseteq stages
           /\ "kv" \notin stages
           /\ ArrayOfObjects(w.val) =>
                /\ HandedToStore
                /\ messages = [i \in 1..Len(w.val.a) |-> NormalizeMessage(w.val.a[i])]

\* C24: an indented array of two records in a fence with the json tag,
\* between prose, was stored.
C24_Witness ==
  /\ Done /\ response.success
  /\ Len(messages) = 2
  /\ messages[1] # messages[2]
  /\ StartsWith(responseText.s, <<"H", "e", "r", "e", " ", "i", "s", " ", "t", "h", "e", " ", "l", "i", "s", "t", ":", "\n">> \o FenceJson \o <<"\n", "[", "\n">>)
  /\ EndsWith(responseText.s, <<"]", "\n">> \o Fence \o <<"\n", "D", "o", "n", "e", ".">>)

(***************************************************************************)
(* The request from the end of the model loop on, for the answers made of  *)
(* lines with "key": "value" pairs.                                        *)
(***************************************************************************)

\* The number of lines of the longest answer of several lines.
MaxKvLines == 2

\* The number of pairs of the longest line.
MaxPairs == 2

\* The pairs of a line: a key, the white space after its colon (none, a
\* space, a form feed, a no-break space and a vertical tab), a value.
Pairs ==
  {[k |-> KeySender, gap |-> <<>>, v |-> <<"B", "o", "b">>],
   [k |-> KeySender, gap |-> <<" ">>, v |-> <<>>],
   [k |-> KeySender, gap |-> <<"U+00A0", "U+000B">>, v |-> <<"A", "l">>],
   [k |-> KeyTimestamp, gap |-> <<"\f">>, v |-> <<"1", "0", ":", "0", "0">>],
   [k |-> KeyMessage, gap |-> <<" ">>, v |-> <<"h", "i">>],
   [k |-> KeyMessage, gap |-> <<>>, v |-> <<>>]}

RECURSIVE PairsText(_)
\* The text of the pairs of a line: "key":gap"value", with commas between.
PairsText(ps) ==
  IF ps = <<>> THEN <<>>
  ELSE <<"\"">> \o ps[1].k \o <<"\"", ":">> \o ps[1].gap \o <<"\"">> \o ps[1].v \o <<"\"">>
       \o (IF Len(ps) = 1 THEN <<>> ELSE <<",", " ">> \o PairsText(Tail(ps)))

\* The lines of an answer: what stands before the pairs (nothing, a brace,
\* white space, a key without quotes), the pairs, what stands after them.
KvLineParts ==
  [pre : {<<>>, <<"{">>, <<" ", " ">>, <<"s", "e", "n", "d", "e", "r", " ", "B", "o", "b">>},
   pairs : UNION {[1..n -> Pairs] : n \in 0..MaxPairs},
   post : {<<>>, <<",">>}]

KvLineText(l) == l.pre \o PairsText(l.pairs) \o l.post

\* The lines of the answers of several lines: one key on each of three
\* lines, a line of two keys, a line without pair.
SomeKvLines ==
  {[pre |-> <<" ", " ">>, pairs |-> <<[k |-> KeySender, gap |-> <<" ">>, v |-> <<"B", "o", "b">>]>>, post |-> <<",">>],
   [pre |-> <<" ", " ">>, pairs |-> <<[k |-> KeyTimestamp, gap |-> <<" ">>, v |-> <<"1", "0", ":", "0", "0">>]>>, post |-> <<",">>],
   [pre |-> <<" ", " ">>, pairs |-> <<[k |-> KeyMessage, gap |-> <<" ">>, v |-> <<"h", "i">>]>>, post |-> <<>>],
   [pre |-> <<"{">>, pairs |-> <<[k |-> KeyMessage, gap |-> <<>>, v |-> <<>>],
                                 [k |-> KeySender, gap |-> <<>>, v |-> <<"A", "l">>]>>, post |-> <<",">>],
   [pre |-> <<"s", "e", "n", "d", "e", "r", " ", "B", "o", "b">>, pairs |-> <<>>, post |-> <<>>]}

RECURSIVE JoinKvLines(_)
JoinKvLines(ls) ==
  IF ls = <<>> THEN <<>>
  ELSE IF Len(ls) = 1 THEN KvLineText(ls[1])
  ELSE KvLineText(ls[1]) \o <<"\n">> \o JoinKvLines(Tail(ls))

\* The answers: every answer of one line, and the answers of up to
\* MaxKvLines of SomeKvLines; each with its lines and its text.
KvAnswers ==
  {[lines |-> ls, text |-> JoinKvLines(ls)] :
     ls \in {<<l>> : l \in KvLineParts} \cup UNION {[1..n -> SomeKvLines] : n \in 2..MaxKvLines}}

\* The state when the first candidate has returned such an answer for a
\* valid upload.
InitRecover ==
  /\ handler = "POST:142"
  /\ env = [OPENAI_API_KEY |-> TRUE, MONGODB_URI |-> TRUE]
  /\ file = UploadedFile(<<"c", "h", "a", "t", ".", "t", "x", "t">>,
                          <<"h", "e", "l", "l", "o">>, "\n", 5)
  /\ pc = "afterLoop"
  /\ k = 1
  /\ calls = <<models[1]>>
  /\ inflight = {}
  /\ timers = {}
  /\ aborted = {}
  /\ responseText \in {JStr(c.text) : c \in {d \in KvAnswers : d.text # <<>>}}
  /\ lastError = NoError
  /\ messages = <<>>
  /\ fallback = FALSE
  /\ stages = {"formData", "text", "collection", "completion"}
  /\ store = <<>>
  /\ inserts = 0
  /\ response = NoResponse
  /\ read = NoRead
  /\ conn = Connected

SpecRecover == InitRecover /\ [][NextAfterLoop]_vars

\* The value of a key on a line: that of the first pair with the key, else
\* the default.
ValueOnLine(l, key, default) ==
  IF \E i \in 1..Len(l.pairs) : l.pairs[i].k = key
  THEN l.pairs[CHOOSE i \in 1..Len(l.pairs) :
                 /\ l.pairs[i].k = key
                 /\ \A j \in 1..(i - 1) : l.pairs[j].k # key].v
  ELSE default

\* The record recovered from a line with a pair.
RecoveredRecord(l) ==
  JObj(<<[k |-> KeySender, v |-> JStr(ValueOnLine(l, KeySender, Unknown))],
         [k |-> KeyTimestamp, v |-> JStr(ValueOnLine(l, KeyTimestamp, Unknown))],
         [k |-> KeyMessage, v |-> JStr(ValueOnLine(l, KeyMessage, <<>>))]>>)

\* The lines with a pair, in their order.
LinesWithPair(ls) == SelectSeq(ls, LAMBDA l : l.pairs # <<>>)

\* C25: when JSON.parse of the cleaned response throws, the key/value
\* recovery runs on the lines of the raw response and gives one record for
\* each line with a "sender", "timestamp" or "message" pair, in line order,
\* with Unknown for a sender or timestamp the line does not have and the
\* empty text for a message it does not have; a line without pair gives
\* nothing; and the records recovered, when there are any, go through the
\* validation to the store.
C25_RecoveryPerLine ==
  \A c \in KvAnswers :
    (responseText = JStr(c.text) /\ ~JSONParse(CleanResponse(c.text)).ok) =>
      /\ KvRecover(c.text) =
           [i \in 1..Len(LinesWithPair(c.lines)) |-> RecoveredRecord(LinesWithPair(c.lines)[i])]
      /\ pc # "afterLoop" =>
           /\ "kv" \in stages
           /\ IF LinesWithPair(c.lines) = <<>>
              THEN Done /\ response.status = 500 /\ "validation" \notin stages
              ELSE /\ "validation" \in stages
                   /\ HandedToStore
                   /\ messages = [i \in 1..Len(LinesWithPair(c.lines)) |->
                                    NormalizeMessage(RecoveredRecord(LinesWithPair(c.lines)[i]))]

\* C25: an answer of a line with the sender only and a line with the message
\* only was recovered as two records and stored.
C25_Witness ==
  /\ Done /\ response.success
  /\ "kv" \in stages
  /\ Len(messages) = 2
  /\ messages[1] = [sender |-> JStr(<<"B", "o", "b">>), timestamp |-> JStr(Unknown), message |-> JStr(<<>>)]
  /\ messages[2] = [sender |-> JStr(Unknown), timestamp |-> JStr(Unknown), message |-> JStr(<<"h", "i">>)]

(***************************************************************************)
(* The request from the end of the model loop on, for the answers that are *)
(* not JSON: short texts of brackets, fence characters and letters, texts  *)
(* longer than the preview, and texts with a "key": "value" pair.          *)
(***************************************************************************)

\* The length of the longest short answer.
MaxFailing == 4

FailingCharacters == {"[", "]", Backtick, "a"}

ShortTexts == UNION {[1..n -> FailingCharacters] : n \in 1..MaxFailing}

\* More letters than the preview has characters.
LongRun == [i \in 1..(PreviewLength + 1) |-> "a"]

LongTexts ==
  {LongRun, <<"[">> \o LongRun, <<"[">> \o LongRun \o <<"]">>, LongRun \o Fence,
   <<"[">> \o LongRun \o <<",", "]">> \o Fence}

\* "sender":<gap>"Bob"
SenderPair(gap) ==
  <<"\"", "s", "e", "n", "d", "e", "r", "\"", ":">> \o gap \o <<"\"", "B", "o", "b", "\"">>

\* Texts with a pair, the white space after the colon being a form feed, a
\* no-break space, a carriage return; and texts without one: the value on
\* the next line, a letter between the colon and the value, no closing quote.
PairTexts ==
  {BobText, Fence \o <<"\n">> \o BobText, <<"[">> \o BobText \o <<"]">>,
   SenderPair(<<"\f">>), <<"[">> \o SenderPair(<<"U+00A0", "\t">>), SenderPair(<<"\r">>) \o Fence,
   SenderPair(<<"\n">>), <<"[">> \o SenderPair(<<" ", "\n">>) \o <<"]">>, SenderPair(<<"a">>),
   <<"\"", "s", "e", "n", "d", "e", "r", "\"", ":", "\f", "\"", "B", "o", "b">>}

UnparsedTexts == ShortTexts \cup LongTexts \cup PairTexts

\* The state when the first candidate has returned such a text for a valid
\* upload.
InitUnparsed ==
  /\ handler = "POST:142"
  /\ env = [OPENAI_API_KEY |-> TRUE, MONGODB_URI |-> TRUE]
  /\ file = UploadedFile(<<"c", "h", "a", "t", ".", "t", "x", "t">>,
                          <<"h", "e", "l", "l", "o">>, "\n", 5)
  /\ pc = "afterLoop"
  /\ k = 1
  /\ calls = <<models[1]>>
  /\ inflight = {}
  /\ timers = {}
  /\ aborted = {}
  /\ responseText \in {JStr(t) : t \in UnparsedTexts}
  /\ lastError = NoError
  /\ messages = <<>>
  /\ fallback = FALSE
  /\ stages = {"formData", "text", "collection", "completion"}
  /\ store = <<>>
  /\ inserts = 0
  /\ response = NoResponse
  /\ read = NoRead
  /\ conn = Connected

SpecUnparsed == InitUnparsed /\ [][NextAfterLoop]_vars

\* The text has three fence characters in a row.
HasFence(t) == \E i \in 1..(Len(t) - 2) : t[i] = Backtick /\ t[i + 1] = Backtick /\ t[i + 2] = Backtick

HasCharacter(t, c) == \E i \in 1..Len(t) : t[i] = c

\* The one diagnostic of a text, by the priority of the claim.
Diagnostic(t) ==
  IF HasFence(t)
  THEN "The response appears to contain markdown formatting that could not be parsed."
  ELSE IF ~HasCharacter(t, "[") \/ ~HasCharacter(t, "]")
  THEN "The response does not appear to contain a JSON array."
  ELSE "The JSON structure is malformed."

\* The first characters of a text, as many as the preview has.
Preview(t) == [i \in 1..(IF Len(t) < PreviewLength THEN Len(t) ELSE PreviewLength) |-> t[i]]

IsParseError(m) == m.msg = "Invalid JSON response from OpenAI."

\* The text has, on one line, one of the three keys in quotes, a colon, white
\* space or none, and a value between quotes.
HasPairOnLine(t) ==
  \E key \in {KeySender, KeyTimestamp, KeyMessage} :
    \E i \in 1..(Len(t) - Len(key) - 4) :
      /\ t[i] = "\"" /\ t[i + Len(key) + 1] = "\"" /\ t[i + Len(key) + 2] = ":"
      /\ \A x \in 1..Len(key) : t[i + x] = key[x]
      /\ \E j \in (i + Len(key) + 3)..(Len(t) - 1) :
           /\ t[j] = "\""
           /\ \A x \in (i + Len(key) + 3)..(j - 1) : t[x] \in WS \ {"\n"}
           /\ \E m \in (j + 1)..Len(t) :
                t[m] = "\"" /\ \A x \in (j + 1)..(m - 1) : t[x] # "\n"

\* C26: when JSON.parse of the cleaned response throws and the key/value
\* recovery gives no record, the request ends with the parse error, whose
\* message has the first 300 characters of the raw response and one
\* diagnostic: markdown when the raw response has a fence, else missing
\* array when it lacks '[' or ']', else malformed structure; when the
\* recovery gives a record there is no parse error.
C26_ParseErrorDiagnostic ==
  \A t \in UnparsedTexts :
    (responseText = JStr(t) /\ pc # "afterLoop" /\ ~JSONParse(CleanResponse(t)).ok) =>
      /\ "kv" \in stages
      /\ ~HasPairOnLine(t) =>
           /\ Done
           /\ response.status = 500
           /\ ~response.success
           /\ IsParseError(response.error)
           /\ response.error.diag = Diagnostic(t)
           /\ response.error.arg = Preview(t)
           /\ {"validation", "insert"} \cap stages = {}
      /\ HasPairOnLine(t) =>
           /\ ~IsParseError(response.error)
           /\ "validation" \in stages

\* C26: a text of more than 300 characters between brackets, with a fence
\* after it, ended with the markdown diagnostic and a preview of 300
\* characters.
C26_Witness ==
  /\ Done
  /\ IsParseError(response.error)
  /\ HasFence(responseText.s) /\ HasCharacter(responseText.s, "[") /\ HasCharacter(responseText.s, "]")
  /\ Len(responseText.s) > PreviewLength
  /\ Len(response.error.arg) = PreviewLength
  /\ response.error.diag = "The response appears to contain markdown formatting that could not be parsed."

(***************************************************************************)
(* Properties of the persisted records.                                    *)
(***************************************************************************)

\* A non-empty string.
NonEmptyString(v) == v.t = "str" /\ v.s # <<>>

\* C14: every record in the store has a sender, a timestamp and a message
\* that are defined, and its sender and timestamp are non-empty strings.
C14_RecordsPopulated ==
  \A i \in 1..Len(store) :
    /\ NonEmptyString(store[i].sender)
    /\ NonEmptyString(store[i].timestamp)
    /\ store[i].message.t # "undefined"

\* The errors of the configuration, the input validation, the model
\* failure, the parse and the validation, by their text.
PipelineErrors ==
  {"OpenAI API key not configured", "Database connection not configured",
   "No file uploaded", "File size too large. Maximum size is 4MB.",
   "Only .txt files are allowed", "File is empty",
   "File content too large. Please use a smaller file (max 50KB).",
   "All models failed. Last error: ",
   "Request timeout - file processing took too long. Please try with a smaller file.",
   "Invalid JSON response from OpenAI.", "Expected an array of messages",
   "Invalid message at index "}

\* The part of C15 about the insert: insertChatMessages is called at most
\* once in a request, and only when the records are complete (after the
\* validation, or after the manual parser); a request that has not called it
\* has inserted nothing.
AtMostOneInsert ==
  /\ inserts <= 1
  /\ inserts = 1 => (Done /\ ("validation" \in stages \/ "manual" \in stages))
  /\ pc = "find" => (inserts = 0 /\ ("validation" \in stages \/ "manual" \in stages))
  /\ (inserts = 0 /\ pc # "find") => store = <<>>

\* C15: AtMostOneInsert, and a request that ends in a configuration, input
\* validation, model failure, parse or validation error has inserted no
\* record.
C15_NoPartialPersistence ==
  /\ AtMostOneInsert
  /\ (Done /\ ~response.success /\ response.error.msg \in PipelineErrors) => store = <<>>

\* The insert of the request threw: insertChatMessages was called and the
\* request did not succeed.
InsertFailed == Done /\ inserts = 1 /\ ~response.success

\* C16: when insertChatMessages throws, on the model path or on the manual
\* path, the request is answered 500 with the error of the store, and not
\* with a model failure message.
C16_InsertErrorSurfaced ==
  InsertFailed =>
    /\ response.status = 500
    /\ \E e \in StoreErrors : response.error = MessageWith("", e.message)
    /\ response.error.msg \notin
         {"All models failed. Last error: ",
          "Request timeout - file processing took too long. Please try with a smaller file."}

(***************************************************************************)
(* Properties of the response.                                             *)
(***************************************************************************)

\* An error with a text.
HasErrorText(m) == m.msg # "" \/ m.arg # <<>>

\* The response of a request that is over: 200 with success, or 400 or 500
\* with an error text; a request that is not over has no response.
ResponseShape ==
  IF Done
  THEN \/ response.status = 200 /\ response.success
       \/ /\ response.status \in {400, 500}
          /\ ~response.success
          /\ HasErrorText(response.error)
  ELSE response = NoResponse

\* C17: when every completion call and every store call returns or throws,
\* the request ends, with one response that does not change afterwards: 200
\* with success: true, or 400 or 500 with an error text.
C17_OneResponse ==
  /\ []ResponseShape
  /\ [][Done => response' = response]_vars
  /\ <>Done

\* C17 witness: a request ended with the model failure after three
\* candidates threw.
C17_Witness ==
  /\ Done /\ Len(calls) = 3
  /\ response.status = 500
  /\ response.error.msg = "All models failed. Last error: "
  /\ HasErrorText(response.error)

\* C27: the documents one insertChatMessages call writes are in the order
\* of the messages it was given, each with the sender, timestamp and message
\* of its message unchanged and with a created_at, and their created_at do
\* not decrease along that order, the clock not going back; when the call
\* returns, every message has its document.
C27_BatchCreatedAt ==
  HandedToStore =>
    /\ Len(store) <= Len(messages)
    /\ \A i \in 1..Len(store) :
         /\ store[i].sender = messages[i].sender
         /\ store[i].timestamp = messages[i].timestamp
         /\ store[i].message = messages[i].message
         /\ store[i].created_at \in 1..MaxTime
    /\ \A i \in 1..Len(store), j \in 1..Len(store) :
         i < j => store[i].created_at <= store[j].created_at
    /\ response.success => (Len(store) = Len(messages) /\ response.data = store)

\* C27: a call stored two different messages, the second at a later time
\* than the first.
C27_Witness ==
  /\ Done /\ response.success
  /\ Len(store) = 2
  /\ store[1].sender # store[2].sender
  /\ store[1].created_at < store[2].created_at

(***************************************************************************)
(* The read request: GET of the route, in its two versions, with           *)
(* getAllChatMessages and getChatMessagesBySender of the store module.     *)
(***************************************************************************)

\* The longest sender parameter GET accepts.
MaxSenderLength == 100

\* The number of documents of the largest collection of a read.
MaxDocs == 3

ReadError(st, m) == [status |-> st, success |-> FALSE, error |-> m, data |-> <<>>,
                     count |-> 0]

\* {success: true, data: messages, count: messages.length}
ReadSuccess(docs) == [status |-> 200, success |-> TRUE, error |-> NoMessage,
                      data |-> docs, count |-> Len(docs)]

\* The validation of the sender parameter.
SenderError(sender) ==
  IF Truthy(sender) /\ (sender.t # "str" \/ Len(sender.s) > MaxSenderLength)
  THEN Message("Invalid sender parameter")
  ELSE NoMessage

\* The filter of the store query: find({sender}) for a truthy parameter,
\* find({}) otherwise.
SenderFilter(sender) ==
  IF Truthy(sender) THEN [all |-> FALSE, sender |-> sender] ELSE [all |-> TRUE, sender |-> JNull]

\* The indexes of the documents of the collection a filter matches.
Matching(coll, filter) ==
  {i \in 1..Len(coll) : filter.all \/ coll[i].sender = filter.sender}

\* sort({created_at: -1}): later documents first.
SortedDescending(docs) ==
  \A i \in 1..Len(docs), j \in 1..Len(docs) :
    i < j => docs[i].created_at >= docs[j].created_at

\* An order that keeps the order of the collection.
QueryResultsUnsorted(coll, filter) ==
  {[i \in 1..Cardinality(Matching(coll, filter)) |->
      coll[CHOOSE m \in Matching(coll, filter) :
             Cardinality({x \in Matching(coll, filter) : x < m}) = i - 1]]}

\* find(filter).sort({created_at: -1}).toArray(): the matching documents,
\* each once, later ones first; documents of the same time in any order.
QueryResults(coll, filter) ==
  LET match == Matching(coll, filter)
      n == Cardinality(match)
  IN {[i \in 1..n |-> coll[p[i]]] :
        p \in {q \in [1..n -> match] :
                 /\ \A a \in 1..n, b \in 1..n : a # b => q[a] # q[b]
                 /\ SortedDescending([i \in 1..n |-> coll[q[i]]])}}

\* The sender parameters of a read: none, empty, senders with and without
\* documents, the longest accepted and one longer.
SenderParameters ==
  {JNull, JStr(<<>>), JStr(<<"A", "l", "i", "c", "e">>), JStr(<<"B", "o", "b">>), JStr(<<"Z", "e", "d">>),
   JStr([i \in 1..MaxSenderLength |-> "a"]),
   JStr([i \in 1..(MaxSenderLength + 1) |-> "a"])}

\* The collections of a read: up to MaxDocs documents of two senders, with
\* ids and insertion times in the order of insertion.
Collections ==
  UNION {{[i \in 1..n |->
             [id |-> i, sender |-> JStr(ss[i]), timestamp |-> JStr(Unknown),
              message |-> JStr(<<"h", "i">>), created_at |-> ts[i]]] :
            ss \in [1..n -> {<<"A", "l", "i", "c", "e">>, <<"B", "o", "b">>}],
            ts \in {t \in [1..n -> 1..MaxTime] : \A i \in 1..n, j \in 1..n : i < j => t[i] <= t[j]}} :
         n \in 0..MaxDocs}

\* The state when a read request arrives.
InitRead ==
  /\ handler \in Reads
  /\ env \in Envs
  /\ file = NoFile
  /\ pc = "start"
  /\ k = 1
  /\ calls = <<>>
  /\ inflight = {}
  /\ timers = {}
  /\ aborted = {}
  /\ responseText = JUndefined
  /\ lastError = NoError
  /\ messages = <<>>
  /\ fallback = FALSE
  /\ stages = {}
  /\ store \in Collections
  /\ inserts = 0
  /\ response = NoResponse
  /\ \E sender \in SenderParameters : read = [NoRead EXCEPT !.pc = "start", !.sender = sender]
  /\ conn \in ConnsOf(env)

\* GET up to its first await that waits for the store: in the handler of line
\* 39 the configuration check and the validation of the parameter, which the
\* handler of line 4 does not have; then connectToDatabase, which returns the
\* cached pair so that the query is issued, or throws for want of the
\* connection string (the catch block of GET answers), or constructs the
\* client and calls connect().
ReadStart ==
  /\ read.pc = "start"
  /\ IF handler = "GET:39" /\ ~env.MONGODB_URI
     THEN /\ read' = [read EXCEPT !.pc = "done",
                        !.response = ReadError(500, Message("Database connection not configured"))]
          /\ UNCHANGED conn
     ELSE IF handler = "GET:39" /\ SenderError(read.sender) # NoMessage
     THEN /\ read' = [read EXCEPT !.pc = "done",
                        !.response = ReadError(400, SenderError(read.sender))]
          /\ UNCHANGED conn
     ELSE IF Cached(conn)
     THEN /\ read' = [read EXCEPT !.pc = "query",
                        !.queries = Append(read.queries, SenderFilter(read.sender))]
          /\ UNCHANGED conn
     ELSE IF ~env.MONGODB_URI
     THEN /\ read' = [read EXCEPT !.pc = "done",
                        !.response = ReadError(500, MessageWith("", UriNotSet.message))]
          /\ UNCHANGED conn
     ELSE /\ read' = [read EXCEPT !.pc = "connecting"]
          /\ conn' = WithNewClient(conn)
  /\ UNCHANGED <<handler, env, file, pc, k, calls, inflight, timers, aborted, responseText,
                 lastError, messages, fallback, stages, store, inserts, response>>

\* connect() resolves: db is set and the query is issued.
ReadConnectResolves ==
  /\ read.pc = "connecting"
  /\ conn' = WithDb(conn)
  /\ read' = [read EXCEPT !.pc = "query",
                !.queries = Append(read.queries, SenderFilter(read.sender))]
  /\ UNCHANGED <<handler, env, file, pc, k, calls, inflight, timers, aborted, responseText,
                 lastError, messages, fallback, stages, store, inserts, response>>

\* connect() rejects: the catch block of GET; no query is issued and the
\* client of the module stays set.
ReadConnectRejects(e) ==
  /\ read.pc = "connecting"
  /\ read' = [read EXCEPT !.pc = "done",
                !.response = ReadError(500, MessageWith("", e.message))]
  /\ UNCHANGED <<handler, conn, env, file, pc, k, calls, inflight, timers, aborted, responseText,
                 lastError, messages, fallback, stages, store, inserts, response>>

\* The store query returns: the success response.
ReadReturns ==
  /\ read.pc = "query"
  /\ \E docs \in QueryResults(store, read.queries[Len(read.queries)]) :
       read' = [read EXCEPT !.pc = "done", !.response = ReadSuccess(docs)]
  /\ UNCHANGED <<handler, conn, env, file, pc, k, calls, inflight, timers, aborted, responseText,
                 lastError, messages, fallback, stages, store, inserts, response>>

\* The store query throws: the catch block of GET.
ReadThrows(e) ==
  /\ read.pc = "query"
  /\ read' = [read EXCEPT !.pc = "done",
                !.response = ReadError(500, MessageWith("", e.message))]
  /\ UNCHANGED <<handler, conn, env, file, pc, k, calls, inflight, timers, aborted, responseText,
                 lastError, messages, fallback, stages, store, inserts, response>>

NextRead ==
  \/ ReadStart
  \/ ReadConnectResolves
  \/ \E e \in StoreErrors : ReadConnectRejects(e)
  \/ ReadReturns
  \/ \E e \in StoreErrors : ReadThrows(e)

SpecRead == InitRead /\ [][NextRead]_vars

(***************************************************************************)
(* Properties of the read request.                                         *)
(***************************************************************************)

ReadDone == read.pc = "done"

SenderLength == IF read.sender.t = "str" THEN Len(read.sender.s) ELSE 0

\* The read answered 400 with an error body and asked the store nothing.
RejectedSender ==
  /\ read.response.status = 400
  /\ read.response.error # NoMessage
  /\ ~read.response.success
  /\ read.queries = <<>>

\* C18: a read with a sender parameter longer than 100 characters is answered
\* 400 with an error body and without a store query, and a sender of 1 to 100
\* characters is never answered 400.
C18_LongSenderRejected ==
  /\ (ReadDone /\ SenderLength > MaxSenderLength) => RejectedSender
  /\ (ReadDone /\ SenderLength \in 1..MaxSenderLength) => read.response.status # 400

\* The read answered with the documents of the given indexes of the
\* collection, each once, later ones first, and with their number.
ReadAnswers(match) ==
  /\ read.response.status = 200
  /\ read.response.error = NoMessage
  /\ read.response.count = Len(read.response.data)
  /\ SortedDescending(read.response.data)
  /\ Len(read.response.data) = Cardinality(match)
  /\ {read.response.data[i] : i \in 1..Len(read.response.data)} = {store[i] : i \in match}

\* The documents whose sender is the parameter of the read.
OfSender == {i \in 1..Len(store) : store[i].sender = read.sender}

\* C19, as stated: a successful read answers success, data and count, count
\* being the length of data and data being ordered by created_at descending;
\* data is every stored document when the request has no sender parameter and
\* the stored documents of that sender when it has one.
C19_ReadData ==
  (ReadDone /\ read.response.success) =>
    IF read.sender = JNull THEN ReadAnswers(1..Len(store)) ELSE ReadAnswers(OfSender)

\* C19, amended: a successful read answers success, data and count, count
\* being the length of data and data being ordered by created_at descending;
\* data is every stored document when the request has no sender parameter or
\* an empty one, and the stored documents of that sender when the parameter
\* is not empty.
C19_ReadDataNonEmptySender ==
  (ReadDone /\ read.response.success) =>
    IF read.sender = JNull \/ read.sender = JStr(<<>>)
    THEN ReadAnswers(1..Len(store))
    ELSE ReadAnswers(OfSender)

\* C19: a read for one sender answered two of three stored documents, and
\* they were inserted at different times.
C19_Witness ==
  /\ ReadDone
  /\ read.response.success
  /\ Truthy(read.sender)
  /\ Len(store) = 3
  /\ read.response.count = 2
  /\ read.response.data[1].created_at > read.response.data[2].created_at

(***************************************************************************)
(* connectToDatabase, called by concurrent requests.  A client is named by *)
(* the number of its construction, a db by the client it was taken from;   *)
(* 0 is undefined.                                                         *)
(***************************************************************************)

\* The number of calls of connectToDatabase.
NumCallers == 3

Callers == 1..NumCallers

IdleCaller == [pc |-> "idle", mine |-> 0, client |-> 0, db |-> 0]

\* The state of a process that has not connected, with its calls to come.
InitConnect ==
  /\ handler = "POST:142"
  /\ env \in Envs
  /\ file = NoFile
  /\ pc = "start"
  /\ k = 1
  /\ calls = <<>>
  /\ inflight = {}
  /\ timers = {}
  /\ aborted = {}
  /\ responseText = JUndefined
  /\ lastError = NoError
  /\ messages = <<>>
  /\ fallback = FALSE
  /\ stages = {}
  /\ store = <<>>
  /\ inserts = 0
  /\ response = NoResponse
  /\ read = NoRead
  /\ conn = [NoConn EXCEPT !.callers = [c \in Callers |-> IdleCaller]]

\* connectToDatabase up to its await: the cached pair, the check of the
\* connection string, the construction of the client and the start of
\* connect().
ConnectStart(c) ==
  /\ conn.callers # <<>>
  /\ conn.callers[c].pc = "idle"
  /\ IF conn.client # 0 /\ conn.db # 0
     THEN conn' = [conn EXCEPT !.callers[c] =
                     [pc |-> "returned", mine |-> 0, client |-> conn.client, db |-> conn.db]]
     ELSE IF ~env.MONGODB_URI
     THEN conn' = [conn EXCEPT !.callers[c].pc = "threw"]
     ELSE conn' = [conn EXCEPT !.constructed = conn.constructed + 1,
                               !.client = conn.constructed + 1,
                               !.callers[c] = [pc |-> "connecting", mine |-> conn.constructed + 1,
                                               client |-> 0, db |-> 0]]
  /\ UNCHANGED <<handler, read, env, file, pc, k, calls, inflight, timers, aborted, responseText,
                 lastError, messages, fallback, stages, store, inserts, response>>

\* connect() resolves: db is taken from the client of the module at that
\* moment, and the pair of the module is returned.
ConnectDone(c) ==
  /\ conn.callers # <<>>
  /\ conn.callers[c].pc = "connecting"
  /\ conn' = [conn EXCEPT !.db = conn.client,
                          !.callers[c] = [pc |-> "returned", mine |-> conn.callers[c].mine,
                                          client |-> conn.client, db |-> conn.client]]
  /\ UNCHANGED <<handler, read, env, file, pc, k, calls, inflight, timers, aborted, responseText,
                 lastError, messages, fallback, stages, store, inserts, response>>

\* connect() rejects: the error is rethrown, the client of the module stays.
ConnectFails(c) ==
  /\ conn.callers # <<>>
  /\ conn.callers[c].pc = "connecting"
  /\ conn' = [conn EXCEPT !.callers[c].pc = "threw"]
  /\ UNCHANGED <<handler, read, env, file, pc, k, calls, inflight, timers, aborted, responseText,
                 lastError, messages, fallback, stages, store, inserts, response>>

\* closeDatabaseConnection: the client of the module, when there is one, is
\* closed; client and db stay as they are.
CloseConnection ==
  /\ conn.callers # <<>>
  /\ conn.client # 0
  /\ conn' = [conn EXCEPT !.closed = conn.closed \cup {conn.client}]
  /\ UNCHANGED <<handler, read, env, file, pc, k, calls, inflight, timers, aborted, responseText,
                 lastError, messages, fallback, stages, store, inserts, response>>

NextConnect ==
  \/ \E c \in Callers : ConnectStart(c)
  \/ \E c \in Callers : ConnectDone(c)
  \/ \E c \in Callers : ConnectFails(c)
  \/ CloseConnection

SpecConnect == InitConnect /\ [][NextConnect]_vars

(***************************************************************************)
(* Properties of the store connection.                                     *)
(***************************************************************************)

Returned == {c \in DOMAIN conn.callers : conn.callers[c].pc = "returned"}

\* C20: over any interleaving of calls of connectToDatabase at most one
\* client is constructed, and every call that returns gets that client and
\* its db.
C20_Singleton ==
  /\ conn.constructed <= 1
  /\ \A c \in Returned :
       /\ conn.callers[c].client = 1
       /\ conn.callers[c].db = 1

\* Calls that do not overlap and whose connect() resolves share one client:
\* once the pair of the module is set, no client is constructed.
CachedPairReused ==
  [][(conn.client # 0 /\ conn.db # 0) => conn'.constructed = conn.constructed]_vars

(***************************************************************************)
(* Properties of the timeout of a completion attempt.                      *)
(***************************************************************************)

\* A timer is pending only for the attempt in flight, which is the current
\* one; no timer is pending between attempts or once the response is given.
TimersWithinAttempt ==
  /\ timers \subseteq inflight
  /\ inflight \subseteq {k}
  /\ (inflight # {}) <=> (pc = "await")

\* An attempt starts with its timer pending and its signal not aborted.
AttemptStartsClean ==
  (pc = "loop" /\ pc' = "await") => (k' \in timers' /\ k' \notin aborted')

\* A timeout aborts the attempt in flight when it fires, and no other.
AbortsOwnAttempt ==
  \A a \in aborted' \ aborted : a = k /\ pc = "await" /\ a \in inflight

\* The end of an attempt clears its timer.
EndClearsTimer ==
  (pc = "await" /\ pc' # "await") => timers' = {}

C28_NoClosedHandle ==
  [][\A c \in DOMAIN conn.callers :
       (conn.callers[c].pc = "idle" /\ conn'.callers[c].pc = "returned") =>
         conn'.callers[c].client \notin conn.closed]_vars

====
